---- MODULE Spec2Model ----
(***************************************************************************)
(* State-machine model of the wiki_gpt backend (src/backend): the          *)
(* embedder, the vector index, the access filter, the LLM reranker, the    *)
(* answer synthesiser and the search handlers that drive them.             *)
(*                                                                         *)
(* Text is modelled by what the code reads of it: a text handed to         *)
(* str.split() is the sequence of its whitespace-delimited words, a        *)
(* comma-joined tag column is a sequence of characters, an article body is *)
(* a run-length encoded character sequence (so that [:200] is computed).   *)
(***************************************************************************)
EXTENDS Integers, Sequences, FiniteSets, TLC

(***************************************************************************)
(* Bounds of the model.                                                    *)
(***************************************************************************)
MaxWords == 2
MaxScore == 2
MaxTopK == 2
MaxTokens == 2
MaxDeletes == 1
MaxTeams == 2
MaxArticles == 1
MaxVersions == 3
MaxRoles == 2
MaxClock == 3
MaxUpdates == 2

(***************************************************************************)
(* Program constants.                                                      *)
(***************************************************************************)
VECTOR_SIZE == 256
DefaultLimit == 5
ListLimit == 50
MaxAttempts == 5
Minute == 1
SnippetLen == 200

None == "None"

VARIABLES
    credentials,        \* YANDEX_OAUTH_TOKEN and YANDEX_FOLDER_ID are both set
    jsonErrIsRequestException,
                        \* the installed requests raises a JSON decode error
                        \* that subclasses RequestException (requests >= 2.27)
    hashOf,             \* the interpreter's salted str hash, fixed per process
    lastCall,           \* the last embed_text call of the process
    prevCall,           \* the call before it, when it embedded the same text
    articles,           \* relational store: article id -> row
    index,              \* vector index: article id -> point
    deletes,            \* number of delete_article requests served
    pc,                 \* stage of the request in flight
    req,                \* the request in flight
    rawHits,            \* what client.search returned
    accessHits,         \* what search_vector returned
    hits,               \* the handler's hit list
    llmCalls,           \* completion requests sent while serving the request
    lastLLM,            \* the last completion exchange of the request
    response,           \* the handler's return value
    errorStage,         \* stage whose exception ended the request
    rerankArgs,         \* arguments of the request's rerank_with_llm call
    embedExc,           \* exception the request's embed_text call raised
    versions,           \* relational store: article_versions rows, oldest first
    users,              \* relational store: user id -> row with its roles
    userTeams,          \* relational store: user_teams rows
    teams,              \* relational store: team id -> name
    writes,             \* the create and update requests answered 200, oldest first
    lastOp,             \* the last request served outside the search pipeline
    attempts,           \* auth.login_attempts: email -> times of failed logins
    clock,              \* datetime.utcnow(), in minutes
    logins,             \* the login requests in flight, one per worker thread
    updaters,           \* the overlapping update_article requests, one per thread
    vectors,            \* vector index: article id -> the vector last upserted
                        \* by an overlapping update_article (none upserted yet:
                        \* the article has no entry)
    client              \* the frontend: its session state and its api_request

embedVars == <<credentials, jsonErrIsRequestException, hashOf, prevCall, lastCall>>
storeVars == <<articles, index, deletes, versions, users, userTeams, teams, writes>>
reqVars == <<pc, req, rawHits, accessHits, hits, llmCalls, lastLLM, response, errorStage,
            rerankArgs, embedExc>>
sideVars == <<attempts, clock, logins, updaters, vectors, client>>
vars == <<embedVars, storeVars, reqVars, lastOp, sideVars>>

(***************************************************************************)
(* Generic helpers.                                                        *)
(***************************************************************************)
Range(s) == {s[i] : i \in 1..Len(s)}

Min(a, b) == IF a < b THEN a ELSE b

SeqsUpTo(S, n) == UNION {[1..k -> S] : k \in 0..n}

\* Sequences that list every element of the finite set S exactly once.
Perms(S) == {p \in [1..Cardinality(S) -> S] : Range(p) = S}

\* Sequences without repetition of k elements of S.
Arrangements(S, k) == {p \in [1..k -> S] : Cardinality(Range(p)) = k}

(***************************************************************************)
(* Embedder: src/backend/qdrant_utils.py                                   *)
(***************************************************************************)
Words == {"w1", "w2"}
Texts == SeqsUpTo(Words, MaxWords)

\* Values hash(word) may take: any machine integer, negative ones included.
HashValues == {-1, VECTOR_SIZE + 1}
HashFunctions == [Words -> HashValues]

EmbedResponses ==
    { "ok",                 \* 200 with {"embedding": [...]}
      "http_401",           \* raise_for_status raises HTTPError, status 401
      "http_other",         \* raise_for_status raises HTTPError, another status
      "network_error",      \* requests.post raises ConnectionError or Timeout
      "body_unparseable",   \* 200, response.json() cannot decode the body
      "body_missing_field"  \* 200, JSON object without "embedding"
    }

\* The vector the provider answers with; its content is the provider's.
ProviderEmbedding == [i \in 1..VECTOR_SIZE |-> 1]

\* A salted variant: the bucket depends on how many calls were made before.
_local_embed_salted(text) ==
    LET salt == IF lastCall.made THEN 1 ELSE 0
    IN [i \in 1..VECTOR_SIZE |->
          Cardinality({k \in 1..Len(text) :
              ((hashOf[text[k]] + salt) % VECTOR_SIZE) + 1 = i})]

\* vec = [0.0] * VECTOR_SIZE; for word in text.split(): vec[hash(word) % VECTOR_SIZE] += 1.0
\* (position i of the sequence is Python's index i - 1)
_local_embed(text) ==
    [i \in 1..VECTOR_SIZE |->
        Cardinality({k \in 1..Len(text) : (hashOf[text[k]] % VECTOR_SIZE) + 1 = i})]

Returned(vec, source, net) ==
    [raised |-> FALSE, exc |-> None, vec |-> vec, source |-> source, network |-> net]

Raised(exc) ==
    [raised |-> TRUE, exc |-> exc, vec |-> <<>>, source |-> None, network |-> TRUE]

\* embed_text(text) when the provider answers resp (resp is not read without
\* credentials: no request is sent).
embed_text(text, resp) ==
    IF ~credentials THEN Returned(_local_embed(text), "local", FALSE)
    ELSE CASE resp = "ok" -> Returned(ProviderEmbedding, "provider", TRUE)
           [] resp = "http_401" -> Returned(_local_embed(text), "local", TRUE)
           [] resp = "http_other" -> Raised("RuntimeError")
           [] resp = "network_error" -> Returned(_local_embed(text), "local", TRUE)
           [] resp = "body_unparseable" ->
                IF jsonErrIsRequestException
                THEN Returned(_local_embed(text), "local", TRUE)
                ELSE Raised("ValueError")
           [] resp = "body_missing_field" -> Raised("KeyError")

NoCall == [made |-> FALSE, text |-> <<>>, resp |-> None, out |-> Raised(None)]

\* One call of embed_text by the process, recorded with its outcome.  Without
\* credentials no request is sent, so there is no response to draw.
CallEmbed(text, resp) ==
    /\ resp \in (IF credentials THEN EmbedResponses ELSE {None})
    /\ prevCall' = IF lastCall.made /\ lastCall.text = text THEN lastCall ELSE NoCall
    /\ lastCall' = [made |-> TRUE, text |-> text, resp |-> resp,
                    out |-> embed_text(text, resp)]
    /\ UNCHANGED <<credentials, jsonErrIsRequestException, hashOf>>
    /\ UNCHANGED <<sideVars, storeVars, reqVars, lastOp>>

(***************************************************************************)
(* Text conversions.                                                       *)
(***************************************************************************)
\* ",".join(tags): the tags' characters with a comma between two tags
RECURSIVE JoinComma(_)
JoinComma(tags) ==
    IF tags = <<>> THEN <<>>
    ELSE IF Len(tags) = 1 THEN tags[1]
    ELSE tags[1] \o <<",">> \o JoinComma(Tail(tags))

\* s.split(","): the maximal comma-free pieces of s, empty pieces included
SplitComma(s) ==
    LET F[i \in 0..Len(s)] ==
            IF i = 0 THEN << <<>> >>
            ELSE IF s[i] = "," THEN Append(F[i - 1], <<>>)
            ELSE [F[i - 1] EXCEPT ![Len(F[i - 1])] = Append(@, s[i])]
    IN F[Len(s)]

\* a.tags.split(",") if a.tags else []
TagsOfColumn(col) == IF col # <<>> THEN SplitComma(col) ELSE <<>>

\* content[:k] of a run-length encoded string
RECURSIVE Take(_, _)
Take(c, k) ==
    IF c = <<>> \/ k <= 0 THEN <<>>
    ELSE IF Head(c).n <= k THEN <<Head(c)>> \o Take(Tail(c), k - Head(c).n)
    ELSE <<[ch |-> Head(c).ch, n |-> k]>>

RECURSIVE StrLen(_)
StrLen(c) == IF c = <<>> THEN 0 ELSE Head(c).n + StrLen(Tail(c))

(***************************************************************************)
(* Relational store and vector index.                                      *)
(***************************************************************************)
Teams == {"tA", "tB"}
ArticleIds == {"a1", "a2", "a3"}
GroupIds == {"g1"}
Scores == 1..MaxScore

TagHR == <<"h", "r">>
TagIT == <<"i", "t">>

\* Rows as create_article writes them (tags joined, not deleted); created_at
\* is set when the row is inserted.
NewArticle(title, content, tags, group_id, team_id) ==
    [title |-> title, content |-> content, tags |-> JoinComma(tags),
     group_id |-> group_id, team_id |-> team_id, is_deleted |-> FALSE,
     created_at |-> 0]

InitialArticles ==
    [a \in ArticleIds |->
        CASE a = "a1" -> [NewArticle("T1", <<[ch |-> "x", n |-> SnippetLen + 1]>>,
                                     <<TagHR>>, "g1", "tA") EXCEPT !.created_at = 1]
          [] a = "a2" -> [NewArticle("T2", <<[ch |-> "y", n |-> 3]>>,
                                     <<TagHR, TagIT>>, None, "tA") EXCEPT !.created_at = 3]
          [] a = "a3" -> [NewArticle("T3", <<[ch |-> "z", n |-> 3]>>,
                                     <<TagHR>>, "g1", "tB") EXCEPT !.created_at = 5]]

\* The whitespace-delimited words of f"{title}\n{content}" of an article.
ArticleWords(a) == IF a = "a2" THEN <<"w2", "w1">> ELSE <<"w1", "w1">>

\* article_groups.prompt_template and teams.llm_model
GroupPromptTemplate == [g \in GroupIds |-> "GP1"]
TeamLlmModel == [t \in Teams |-> IF t = "tA" THEN "yandexgpt" ELSE None]
DEFAULT_GROUP_PROMPT == "You are a helpful assistant"

\* teams.base_prompt (DEFAULT_BASE_PROMPT unless an admin changed it)
DEFAULT_BASE_PROMPT == "Sdelaj kratkoe rezyume otveta na zapros, opirayas tolko na vyderzhki."
TeamBasePrompt == [t \in Teams |-> IF t = "tA" THEN DEFAULT_BASE_PROMPT ELSE "BP-B"]

\* save_version(article, db): the row's title, content and tags column
ArticleVersion(a, row, now) ==
    [article_id |-> a, title |-> row.title, content |-> row.content,
     tags |-> row.tags, created_at |-> now]

\* One version per initial article, saved right after the article's insert.
InitialVersions ==
    << ArticleVersion("a1", InitialArticles["a1"], 2),
       ArticleVersion("a2", InitialArticles["a2"], 4),
       ArticleVersion("a3", InitialArticles["a3"], 6) >>

\* users with their user_roles rows; user_teams; teams (id -> name)
UserIds == {"u1", "u2"}
AllTeams == Teams \cup {"tC", "tD"}
ROLES == {"admin", "author", "reader"}
User(team_id, roles) == [registered |-> TRUE, team_id |-> team_id, roles |-> roles]
NoUser == [registered |-> FALSE, team_id |-> None, roles |-> {}]
TeamOf(u) == IF u = "u1" THEN "tA" ELSE "tB"
TeamNameOf(u) == <<"Team of", u>>

\* Two registered users, each in the team of its registration, after a restart
\* (ensure_user_team_memberships has written their user_teams rows).
InitialUsers == [u \in UserIds |-> User(TeamOf(u), {"author", "reader"})]
InitialUserTeams == {<<u, TeamOf(u)>> : u \in UserIds}
InitialTeams == [t \in Teams |-> TeamNameOf(IF t = "tA" THEN "u1" ELSE "u2")]

\* insert_vector: payload = {"group_id": str(group_id)} if group_id else {}
PointOf(group_id) == [present |-> TRUE, group_id |-> group_id]
NoPoint == [present |-> FALSE, group_id |-> None]

(***************************************************************************)
(* search_vector: src/backend/qdrant_utils.py                              *)
(***************************************************************************)
NonIncreasing(n) == {sc \in [1..n -> Scores] : \A i \in 1..(n - 1) : sc[i] >= sc[i + 1]}

\* client.search(query_vector, limit, query_filter): the limit nearest points
\* among those whose payload matches the filter, nearest first.  Which points
\* are nearest is the index's: any choice, any descending scores.
client_search(limit, group_id) ==
    LET cand == {a \in ArticleIds :
                    /\ index[a].present
                    /\ (group_id = None \/ index[a].group_id = group_id)}
        n == Min(limit, Cardinality(cand))
    IN {[i \in 1..n |-> [id |-> p[i], score |-> sc[i]]] :
            p \in Arrangements(cand, n), sc \in NonIncreasing(n)}

RawIds(raw) == {raw[i].id : i \in 1..Len(raw)}

\* scores = {str(hit.id): hit.score for hit in hits}; scores[id]
ScoreOf(raw, id) ==
    raw[CHOOSE i \in 1..Len(raw) :
            raw[i].id = id /\ \A j \in (i + 1)..Len(raw) : raw[j].id # id].score

\* The query without its team condition.
AccessibleRows_AnyTeam(raw, team_id) ==
    {a \in RawIds(raw) : ~articles[a].is_deleted}

\* The query without its is_deleted condition.
AccessibleRows_WithDeleted(raw, team_id) ==
    {a \in RawIds(raw) : articles[a].team_id = team_id}

\* db.query(Article).filter(Article.id.in_(ids), Article.is_deleted == False,
\*                          Article.team_id == team_id)
AccessibleRows(raw, team_id) ==
    {a \in RawIds(raw) : ~articles[a].is_deleted /\ articles[a].team_id = team_id}

ArticleSearchHit(a, raw) ==
    [id |-> a, title |-> articles[a].title, content |-> articles[a].content,
     score |-> ScoreOf(raw, a), tags |-> TagsOfColumn(articles[a].tags),
     group_id |-> articles[a].group_id]

\* What search_vector may return for the index's answer raw: one hit per
\* selected row, in the order .all() yields the rows (the query has no
\* ORDER BY, so any order).
search_vector(raw, team_id) ==
    LET rows == AccessibleRows(raw, team_id)
    IN {[i \in 1..Cardinality(rows) |-> ArticleSearchHit(p[i], raw)] : p \in Perms(rows)}

(***************************************************************************)
(* LLM completion responses.                                               *)
(***************************************************************************)
\* message.text of a 200 response: a JSON string (empty says it is "", tokens
\* are its whitespace-delimited words), a JSON number, or null.
StrText(empty, tokens) == [type |-> "str", empty |-> empty, tokens |-> tokens]
NumberText == [type |-> "number", empty |-> FALSE, tokens |-> <<>>]
NullText == [type |-> "null", empty |-> TRUE, tokens |-> <<>>]

LLMFailureKinds ==
    { "transport_error",        \* requests.post raises (timeout included)
      "status_non200",
      "body_unparseable",       \* r.json() raises
      "body_not_object",        \* the JSON value is not an object
      "alternative_malformed"   \* alternatives[0] has no "message" object
    }

LLMFailure(kind) == [kind |-> kind, text |-> NullText]
\* 200, no "alternatives" (or an empty list): text = ""
NoAlternatives == [kind |-> "no_alternatives", text |-> StrText(TRUE, <<>>)]
LLMOk(text) == [kind |-> "ok", text |-> text]
NoLLMResponse == [kind |-> "not_called", text |-> NullText]

TextsOver(tokens, n) ==
    {StrText(TRUE, <<>>), NumberText, NullText}
        \cup {StrText(FALSE, t) : t \in SeqsUpTo(tokens, n)}

LLMResponses(tokens, n) ==
    {LLMFailure(k) : k \in LLMFailureKinds} \cup {NoAlternatives}
        \cup {LLMOk(t) : t \in TextsOver(tokens, n)}

SynthResponses == LLMResponses({"summary"}, 1)

(***************************************************************************)
(* rerank_with_llm: src/backend/qdrant_utils.py                            *)
(***************************************************************************)
HitIds(hs) == {hs[i].id : i \in 1..Len(hs)}

\* What the completion endpoint may answer to the rerank request for hs: the
\* words of its text are ids of hs or a word that is no id of hs ("junk").
RerankResponses(hs) == LLMResponses(HitIds(hs) \cup {"junk"}, MaxTokens)

\* id_to_hit = {h.id: h for h in hits}; id_to_hit[id]
IdToHit(hs, id) ==
    hs[CHOOSE i \in 1..Len(hs) :
            hs[i].id = id /\ \A j \in (i + 1)..Len(hs) : hs[j].id # id]

\* A reranker that answers nothing when the completion request fails.
rerank_with_llm_closed(hs, r) ==
    IF ~credentials \/ hs = <<>> THEN hs
    ELSE IF r.kind # "ok" \/ r.text.type # "str" THEN <<>>
    ELSE LET Known(t) == t \in HitIds(hs)
             order == SelectSeq(r.text.tokens, Known)
         IN [i \in 1..Len(order) |-> IdToHit(hs, order[i])]

\* rerank_with_llm(query, hits, prompt_template, model) when the completion
\* endpoint answers r
rerank_with_llm(hs, r) ==
    IF ~credentials \/ hs = <<>> THEN hs
    ELSE IF r.kind \in {"transport_error", "body_unparseable", "body_not_object",
                        "alternative_malformed"} THEN hs   \* except Exception
    ELSE IF r.kind = "status_non200" THEN hs
    ELSE IF r.text.type # "str" THEN hs     \* text.split() raises, caught
    ELSE LET Known(t) == t \in HitIds(hs)
             order == SelectSeq(r.text.tokens, Known)
         IN IF order # <<>>
            THEN [i \in 1..Len(order) |-> IdToHit(hs, order[i])]
            ELSE hs

\* Whether rerank_with_llm sends a completion request.
RerankCallsLLM(hs) == credentials /\ hs # <<>>

(***************************************************************************)
(* Handler steps shared by search_articles and search_answer:              *)
(* src/backend/main.py                                                     *)
(***************************************************************************)
\* A handler without the tag filter.
TagFilter_Skipped(hs, tags) == hs

\* A filter that keeps a hit carrying any one of the requested tags.
TagFilter_AnyTag(hs, tags) ==
    IF tags # <<>>
    THEN LET Keep(h) == Range(tags) \cap Range(h.tags) # {} IN SelectSeq(hs, Keep)
    ELSE hs

\* hits = [h for h in hits if required.issubset(set(h.tags))] under "if tags:"
\* (a tags value of None and an empty list are both falsy: <<>> stands for both)
TagFilter(hs, tags) ==
    IF tags # <<>>
    THEN LET Keep(h) == Range(tags) \subseteq Range(h.tags) IN SelectSeq(hs, Keep)
    ELSE hs

\* A resolution that ignores the group.
resolve_prompt_default(group_id) == DEFAULT_GROUP_PROMPT

\* resolve_prompt(db, group_id)
resolve_prompt(group_id) ==
    IF group_id # None /\ group_id \in GroupIds /\ GroupPromptTemplate[group_id] # None
    THEN GroupPromptTemplate[group_id]
    ELSE DEFAULT_GROUP_PROMPT

\* db.query(Team.llm_model)...scalar() or "yandexgpt-lite"
team_model(team_id) ==
    IF TeamLlmModel[team_id] # None THEN TeamLlmModel[team_id] ELSE "yandexgpt-lite"

\* The list left as the reranker returned it.
SortByScoreDesc_Skipped(hs) == hs

\* hits.sort(key=lambda h: h.score, reverse=True): stable, highest score first
RECURSIVE SortByScoreDesc(_)
SortByScoreDesc(hs) ==
    IF hs = <<>> THEN <<>>
    ELSE LET n == Len(hs)
             front == SortByScoreDesc(SubSeq(hs, 1, n - 1))
             k == Cardinality({i \in 1..Len(front) : front[i].score >= hs[n].score})
         IN SubSeq(front, 1, k) \o <<hs[n]>> \o SubSeq(front, k + 1, Len(front))

(***************************************************************************)
(* Answer synthesis of search_answer: src/backend/main.py                  *)
(***************************************************************************)
ANSWER_BASE_PROMPT == "Sformuliruj edinyj i svyaznyj otvet ..."

\* Snippets that keep the whole content.
Snippets_Full(hs) == hs

\* snippet = h.content[:200] for every hit
Snippets(hs) == [i \in 1..Len(hs) |-> [hs[i] EXCEPT !.content = Take(@, SnippetLen)]]

\* "[{title}](wiki://{id})"
Link(h) == [title |-> h.title, id |-> h.id]

\* prompt: the instruction alone without context, else instruction, query and
\* one "[title](wiki://id)\ncontent" part per snippet
NoPrompt == [instruction |-> None, q |-> <<>>, context |-> <<>>]
AnswerPrompt(q, hs) ==
    IF hs = <<>> THEN [instruction |-> ANSWER_BASE_PROMPT, q |-> <<>>, context |-> <<>>]
    ELSE [instruction |-> ANSWER_BASE_PROMPT, q |-> q,
          context |-> [i \in 1..Len(hs) |->
                          [link |-> Link(hs[i]), content |-> Snippets(hs)[i].content]]]

\* A synthesis request sent whether or not there is context.
SynthCallsLLM_NoContextCheck(hs) == credentials

\* Whether search_answer sends the synthesis request: context and credentials.
SynthCallsLLM(hs) == hs # <<>> /\ credentials

\* bool(answer) and answer.strip() of a text value
Truthy(t) == (t.type = "str" /\ ~t.empty) \/ t.type = "number"
Strip(t) == StrText(t.tokens = <<>>, t.tokens)

\* answer after the try block: the response's text on a 200 that parses, else ""
LLMAnswer(hs, r) ==
    IF SynthCallsLLM(hs) /\ r.kind \in {"ok", "no_alternatives"} THEN r.text
    ELSE StrText(TRUE, <<>>)

NoBody == [kind |-> None, text |-> NullText, items |-> <<>>]
NoAnswer == [body |-> NoBody, references |-> <<>>]

\* the answer before the references are appended
AnswerBody(hs, r) ==
    IF Truthy(LLMAnswer(hs, r))
    THEN [kind |-> "llm", text |-> LLMAnswer(hs, r), items |-> <<>>]
    ELSE IF hs # <<>>
    THEN [kind |-> "extractive", text |-> NullText,
          items |-> [i \in 1..Len(hs) |->
                       [title |-> hs[i].title, content |-> Snippets(hs)[i].content]]]
    ELSE [kind |-> "nothing_found", text |-> NullText, items |-> <<>>]

\* references = [f"- [{h.title}](wiki://{h.id})" for h in hits]
References(hs) == [i \in 1..Len(hs) |-> Link(hs[i])]

\* A synthesiser that cites only when the LLM wrote the body.
ComposeAnswer_RefsOnLLM(hs, r) ==
    LET body == AnswerBody(hs, r)
    IN [raised |-> FALSE,
        answer |-> [body |-> body,
                    references |-> IF body.kind = "llm" THEN References(hs) ELSE <<>>]]

\* if references: answer = f"{answer.strip()}\n\n..." + "\n".join(references)
\* answer.strip() raises AttributeError when answer is not a str.
ComposeAnswer(hs, r) ==
    LET body == AnswerBody(hs, r)
    IN IF References(hs) = <<>> THEN [raised |-> FALSE,
                                      answer |-> [body |-> body, references |-> <<>>]]
       ELSE IF body.kind = "llm" /\ body.text.type # "str"
       THEN [raised |-> TRUE, answer |-> NoAnswer]
       ELSE [raised |-> FALSE,
             answer |-> [body |-> IF body.kind = "llm"
                                  THEN [body EXCEPT !.text = Strip(@)] ELSE body,
                         references |-> References(hs)]]

(***************************************************************************)
(* Requests.                                                               *)
(***************************************************************************)
QueryTexts == {<<"w1", "w2">>}
RequestTags == {<<>>, <<TagIT, TagHR>>}
GroupFilters == {None} \cup GroupIds

Request(endpoint, team_id, q, tags, group_id, top_k, article_id, limit) ==
    [endpoint |-> endpoint, team_id |-> team_id, q |-> q, tags |-> tags,
     group_id |-> group_id, top_k |-> top_k, article_id |-> article_id,
     limit |-> limit]

NoRequest == Request(None, None, <<>>, <<>>, None, 0, None, 0)

\* POST /articles/search/ with ArticleSearchQuery {q, tags, group_id}; a top_k
\* in the body is an extra field, which the schema does not declare.
SearchRequests ==
    {Request("search", t, q, tags, g, k, None, 0) :
        t \in Teams, q \in QueryTexts, tags \in RequestTags, g \in GroupFilters,
        k \in {1, MaxTopK}}

\* POST /articles/search/answer with SearchAnswerRequest {q, tags, group_id, top_k}
AnswerRequests ==
    {Request("answer", t, q, tags, g, k, None, 0) :
        t \in Teams, q \in QueryTexts, tags \in RequestTags, g \in GroupFilters,
        k \in 1..MaxTopK}

\* GET /articles/{article_id}/related?limit=n
RelatedRequests ==
    {Request("related", t, <<>>, <<>>, None, 0, a, n) :
        t \in Teams, a \in ArticleIds, n \in 1..MaxTopK}

NoResponse == [status |-> 0, hits |-> <<>>, answer |-> NoAnswer, prompt_used |-> NoPrompt]
HitsResponse(hs) == [NoResponse EXCEPT !.status = 200, !.hits = hs]
ErrorResponse(status) == [NoResponse EXCEPT !.status = status]

\* Every handler left on search_vector's default limit.
LimitOf_Default(r) == DefaultLimit

\* limit and group_id the handler passes to _search_with_optional_group
LimitOf(r) ==
    CASE r.endpoint = "search" -> DefaultLimit
      [] r.endpoint = "answer" -> r.top_k
      [] r.endpoint = "related" -> r.limit + 1

\* The group filter taken from the request, which related_articles has none of.
GroupOf_Request(r) == r.group_id

GroupOf(r) ==
    IF r.endpoint = "related" THEN articles[r.article_id].group_id ELSE r.group_id

\* the text the handler embeds
EmbedInput(r) ==
    IF r.endpoint = "related" THEN ArticleWords(r.article_id) ELSE r.q

(***************************************************************************)
(* Handlers outside the search pipeline: src/backend/main.py, auth.py.     *)
(* Each is served in one step; lastOp holds the request and its response.  *)
(***************************************************************************)
NoInput == [title |-> None, tags |-> <<>>, roles |-> <<>>, offset |-> 0, limit |-> 0]

Op(op, caller, article_id, target, status, rows) ==
    [op |-> op, caller |-> caller, team_id |-> users[caller].team_id,
     article_id |-> article_id, target |-> target, input |-> NoInput,
     status |-> status, rows |-> rows]

NoOp == [op |-> None, caller |-> None, team_id |-> None, article_id |-> None,
         target |-> None, input |-> NoInput, status |-> 0, rows |-> <<>>]

\* require_roles(required): the caller passes with the admin role or with
\* every required role, and gets 403 otherwise.
RequireRoles(u, required) == "admin" \in users[u].roles \/ required \subseteq users[u].roles

VisibleArticle_AnyTeam(a, team_id) ==
    /\ a \in DOMAIN articles
    /\ ~articles[a].is_deleted

\* db.query(Article).filter(Article.id == article_id, Article.is_deleted == False,
\*                          Article.team_id == current_user.team_id).first()
VisibleArticle(a, team_id) ==
    /\ a \in DOMAIN articles
    /\ ~articles[a].is_deleted
    /\ articles[a].team_id = team_id

\* db.query(Article).filter(Article.is_deleted == False, Article.team_id == team_id)
TeamArticles(team_id) == {a \in DOMAIN articles : VisibleArticle(a, team_id)}

ArticleOutOf(a, row) ==
    [id |-> a, title |-> row.title, content |-> row.content,
     tags |-> TagsOfColumn(row.tags), group_id |-> row.group_id]

ArticleOut(a) == ArticleOutOf(a, articles[a])

ArticleVersionOut(v) ==
    [article_id |-> v.article_id, title |-> v.title, content |-> v.content,
     tags |-> TagsOfColumn(v.tags), created_at |-> v.created_at]

\* .order_by(created_at.desc()).all() over a set of rows: every listing of the
\* rows in which created_at never increases
OrderByCreatedAtDesc(rows) ==
    {p \in Perms(rows) : \A i \in 1..(Len(p) - 1) : p[i].created_at >= p[i + 1].created_at}

VersionsOf(a) == {versions[i] : i \in {j \in 1..Len(versions) : versions[j].article_id = a}}

\* GET /articles/{article_id}
get_article(u, a) ==
    /\ pc = "idle"
    /\ users[u].registered
    /\ lastOp' =
          IF ~RequireRoles(u, {"reader"}) THEN Op("get_article", u, a, None, 403, <<>>)
          ELSE IF ~VisibleArticle(a, users[u].team_id)
          THEN Op("get_article", u, a, None, 404, <<>>)
          ELSE Op("get_article", u, a, None, 200, <<ArticleOut(a)>>)
    /\ UNCHANGED <<sideVars, embedVars, storeVars, reqVars>>

\* GET /articles/ (the query has no ORDER BY: rows come in any order)
list_articles(u, order) ==
    /\ pc = "idle"
    /\ users[u].registered
    /\ order \in Perms(TeamArticles(users[u].team_id))
    /\ lastOp' =
          IF ~RequireRoles(u, {"reader"}) THEN Op("list_articles", u, None, None, 403, <<>>)
          ELSE Op("list_articles", u, None, None, 200,
                  [i \in 1..Len(order) |-> ArticleOut(order[i])])
    /\ UNCHANGED <<sideVars, embedVars, storeVars, reqVars>>

\* GET /articles/{article_id}/history
article_history(u, a, order) ==
    /\ pc = "idle"
    /\ users[u].registered
    /\ order \in OrderByCreatedAtDesc(VersionsOf(a))
    /\ lastOp' =
          IF ~RequireRoles(u, {"reader"}) THEN Op("article_history", u, a, None, 403, <<>>)
          ELSE IF ~VisibleArticle(a, users[u].team_id)
          THEN Op("article_history", u, a, None, 404, <<>>)
          ELSE Op("article_history", u, a, None, 200,
                  [i \in 1..Len(order) |-> ArticleVersionOut(order[i])])
    /\ UNCHANGED <<sideVars, embedVars, storeVars, reqVars>>

\* str.lower() of one character, as ILIKE compares
LowerChar(c) == CASE c = "H" -> "h" [] c = "R" -> "r" [] OTHER -> c

LowerStr(s) == [i \in 1..Len(s) |-> LowerChar(s[i])]

\* t.strip(): t without its leading and trailing blanks
RECURSIVE StripBlanks(_)
StripBlanks(t) ==
    IF t = <<>> THEN <<>>
    ELSE IF Head(t) = " " THEN StripBlanks(Tail(t))
    ELSE IF t[Len(t)] = " " THEN StripBlanks(SubSeq(t, 1, Len(t) - 1))
    ELSE t

\* tag_list = [t.strip() for t in tags.split(",") if t.strip()]
TagList(param) ==
    LET pieces == SplitComma(param)
        kept == SelectSeq(pieces, LAMBDA t : StripBlanks(t) # <<>>)
    IN [i \in 1..Len(kept) |-> StripBlanks(kept[i])]

\* s has t as a run of consecutive characters
Contains(s, t) == \E i \in 1..(Len(s) - Len(t) + 1) : SubSeq(s, i, i + Len(t) - 1) = t

\* Article.tags.ilike(f"%{t}%") for a t without the wildcards % and _ : the
\* column, tags joined by commas, holds t somewhere, letter case ignored
ILike(col, t) == Contains(LowerStr(col), LowerStr(t))

\* rows[offset:offset + limit] of .offset(offset).limit(limit)
Page(rows, offset, limit) == SubSeq(rows, offset + 1, Min(Len(rows), offset + limit))

ArticleListItem(a) ==
    [id |-> a, title |-> articles[a].title, tags |-> TagsOfColumn(articles[a].tags),
     created_at |-> articles[a].created_at]

\* The rows of the query of list_articles_brief before ordering and paging.
BriefMatches(team_id, param) ==
    {a \in TeamArticles(team_id) :
        param # <<>> => \A i \in 1..Len(TagList(param)) :
                            ILike(articles[a].tags, TagList(param)[i])}

\* GET /articles/list?tags=param&offset=offset&limit=limit, without q
list_articles_brief(u, param, offset, limit, order) ==
    /\ pc = "idle"
    /\ users[u].registered
    /\ order \in Perms(BriefMatches(users[u].team_id, param))
    /\ \A i \in 1..(Len(order) - 1) :
          articles[order[i]].created_at >= articles[order[i + 1]].created_at
    /\ LET answer(status, rows) ==
               [Op("list_articles_brief", u, None, None, status, rows)
                   EXCEPT !.input.tags = param, !.input.offset = offset,
                          !.input.limit = limit]
       IN lastOp' =
             IF ~RequireRoles(u, {"reader"}) THEN answer(403, <<>>)
             ELSE answer(200, [i \in 1..Len(Page(order, offset, limit)) |->
                                  ArticleListItem(Page(order, offset, limit)[i])])
    /\ UNCHANGED <<sideVars, embedVars, storeVars, reqVars>>

(***************************************************************************)
(* Teams: src/backend/auth.py (register), src/backend/main.py.             *)
(***************************************************************************)
TeamNames == {"n1"}

\* A well-formed UUID that is the id of no row.
MissingId == "missing"

\* id of the row a handler inserts (uuid4: an id not in use)
FreshTeam == CHOOSE t \in AllTeams \ DOMAIN teams : TRUE
FreshArticle == CHOOSE a \in ArticleIds \ DOMAIN articles : TRUE

\* POST /auth/register: a team named after the user, then the user with that
\* team as active team and the roles author and reader.  No user_teams row
\* is written.
register(u) ==
    /\ pc = "idle"
    /\ Cardinality(DOMAIN teams) < MaxTeams
    /\ IF users[u].registered
       THEN /\ lastOp' = Op("register", u, None, None, 409, <<>>)
            /\ UNCHANGED <<users, teams>>
       ELSE /\ teams' = teams @@ (FreshTeam :> TeamNameOf(u))
            /\ users' = [users EXCEPT ![u] = User(FreshTeam, {"author", "reader"})]
            /\ lastOp' = [NoOp EXCEPT !.op = "register", !.caller = u,
                                     !.team_id = FreshTeam, !.target = FreshTeam,
                                     !.status = 200]
    /\ UNCHANGED <<articles, index, deletes, versions, userTeams, writes>>
    /\ UNCHANGED <<sideVars, embedVars, reqVars>>

\* ensure_user_team_memberships(), run when the process starts: every user
\* gets a user_teams row for its active team.
ensure_user_team_memberships ==
    /\ pc = "idle"
    /\ userTeams' = userTeams \cup
                        {<<u, users[u].team_id>> : u \in {v \in UserIds :
                              users[v].registered /\ users[v].team_id # None}}
    /\ lastOp' = NoOp
    /\ UNCHANGED <<articles, index, deletes, versions, users, teams, writes>>
    /\ UNCHANGED <<sideVars, embedVars, reqVars>>

\* POST /teams/: teams.name is unique, a second team of the name fails the
\* flush and the request.
create_team(u, name) ==
    /\ pc = "idle"
    /\ users[u].registered
    /\ Cardinality(DOMAIN teams) < MaxTeams
    /\ IF ~RequireRoles(u, {"reader"})
       THEN /\ lastOp' = Op("create_team", u, None, None, 403, <<>>)
            /\ UNCHANGED <<users, teams, userTeams>>
       ELSE IF \E t \in DOMAIN teams : teams[t] = name
       THEN /\ lastOp' = Op("create_team", u, None, None, 500, <<>>)
            /\ UNCHANGED <<users, teams, userTeams>>
       ELSE /\ teams' = teams @@ (FreshTeam :> name)
            /\ userTeams' = userTeams \cup {<<u, FreshTeam>>}
            /\ users' = [users EXCEPT ![u].team_id = FreshTeam]
            /\ lastOp' = Op("create_team", u, None, FreshTeam, 200, <<>>)
    /\ UNCHANGED <<articles, index, deletes, versions, writes>>
    /\ UNCHANGED <<sideVars, embedVars, reqVars>>

\* POST /teams/{team_id}/invite with the email of target
invite_user(u, t, target) ==
    /\ pc = "idle"
    /\ users[u].registered
    /\ IF ~RequireRoles(u, {"reader"})
       THEN /\ lastOp' = Op("invite_user", u, None, t, 403, <<>>)
            /\ UNCHANGED userTeams
       ELSE IF t \notin DOMAIN teams \/ <<u, t>> \notin userTeams
       THEN /\ lastOp' = Op("invite_user", u, None, t, 404, <<>>)
            /\ UNCHANGED userTeams
       ELSE IF ~users[target].registered
       THEN /\ lastOp' = Op("invite_user", u, None, t, 404, <<>>)
            /\ UNCHANGED userTeams
       ELSE /\ userTeams' = userTeams \cup {<<target, t>>}
            /\ lastOp' = Op("invite_user", u, None, t, 200, <<>>)
    /\ UNCHANGED <<articles, index, deletes, versions, users, teams, writes>>
    /\ UNCHANGED <<sideVars, embedVars, reqVars>>

\* POST /teams/{team_id}/remove with the id of target.  The session does not
\* autoflush (db.py), so the query for another membership of target still
\* sees the row being deleted: new_assoc is any user_teams row of target,
\* that row included, and is never None.
remove_user(u, t, target, new_assoc) ==
    /\ pc = "idle"
    /\ users[u].registered
    /\ IF ~RequireRoles(u, {"reader"})
       THEN /\ lastOp' = [Op("remove_user", u, None, target, 403, <<>>)
                             EXCEPT !.team_id = t]
            /\ UNCHANGED <<users, userTeams>>
       ELSE IF t \notin DOMAIN teams \/ <<u, t>> \notin userTeams
       THEN /\ lastOp' = [Op("remove_user", u, None, target, 404, <<>>)
                             EXCEPT !.team_id = t]
            /\ UNCHANGED <<users, userTeams>>
       ELSE IF <<target, t>> \notin userTeams
       THEN /\ lastOp' = [Op("remove_user", u, None, target, 404, <<>>)
                             EXCEPT !.team_id = t]
            /\ UNCHANGED <<users, userTeams>>
       ELSE /\ new_assoc \in {r \in userTeams : r[1] = target}
            /\ userTeams' = userTeams \ {<<target, t>>}
            /\ users' = IF users[target].team_id = t
                        THEN [users EXCEPT ![target].team_id = new_assoc[2]]
                        ELSE users
            /\ lastOp' = [Op("remove_user", u, None, target, 200, <<>>)
                             EXCEPT !.team_id = t]
    /\ UNCHANGED <<articles, index, deletes, versions, teams, writes>>
    /\ UNCHANGED <<sideVars, embedVars, reqVars>>

\* POST /teams/switch
switch_team(u, t) ==
    /\ pc = "idle"
    /\ users[u].registered
    /\ IF ~RequireRoles(u, {"reader"})
       THEN /\ lastOp' = Op("switch_team", u, None, t, 403, <<>>)
            /\ UNCHANGED users
       ELSE IF <<u, t>> \notin userTeams
       THEN /\ lastOp' = Op("switch_team", u, None, t, 403, <<>>)
            /\ UNCHANGED users
       ELSE /\ users' = [users EXCEPT ![u].team_id = t]
            /\ lastOp' = Op("switch_team", u, None, t, 200, <<>>)
    /\ UNCHANGED <<articles, index, deletes, versions, userTeams, teams, writes>>
    /\ UNCHANGED <<sideVars, embedVars, reqVars>>

(***************************************************************************)
(* Login: src/backend/auth.py.  The handler is a plain def, which the      *)
(* server runs on a thread of its pool: requests overlap, and a request    *)
(* can be overtaken between its check of login_attempts and its update.    *)
(***************************************************************************)
Workers == {"w1", "w2"}
Emails == {"u1"}

NoLogin == [pc |-> "idle", email |-> None, good |-> FALSE, now |-> 0, status |-> 0,
            onRecord |-> 0]

\* while attempts and now - attempts[0] > timedelta(minutes=1): attempts.popleft()
RECURSIVE PopOld(_, _)
PopOld(q, now) ==
    IF q # <<>> /\ now - Head(q) > Minute THEN PopOld(Tail(q), now) ELSE q

\* login up to the query for the user: the old attempts are dropped, then
\* five attempts on record end the request with 429.  good says whether the
\* user exists and the password is the user's.
LoginCheck(w, email, good) ==
    /\ logins[w].pc = "idle"
    /\ LET kept == PopOld(attempts[email], clock)
       IN /\ attempts' = [attempts EXCEPT ![email] = kept]
          /\ logins' = [logins EXCEPT ![w] =
                 [pc |-> IF Len(kept) >= MaxAttempts THEN "idle" ELSE "verifying",
                  email |-> email, good |-> good, now |-> clock,
                  status |-> IF Len(kept) >= MaxAttempts THEN 429 ELSE 0,
                  onRecord |-> Len(kept)]]
    /\ UNCHANGED <<clock, updaters, vectors, client, embedVars, storeVars, reqVars, lastOp>>

\* login from the query for the user to its return
LoginVerify(w) ==
    /\ logins[w].pc = "verifying"
    /\ IF logins[w].good
       THEN /\ attempts' = [attempts EXCEPT ![logins[w].email] = <<>>]
            /\ logins' = [logins EXCEPT ![w].pc = "idle", ![w].status = 200]
       ELSE /\ attempts' = [attempts EXCEPT ![logins[w].email] = Append(@, logins[w].now)]
            /\ logins' = [logins EXCEPT ![w].pc = "idle", ![w].status = 401]
    /\ UNCHANGED <<clock, updaters, vectors, client, embedVars, storeVars, reqVars, lastOp>>

\* Time passes.
Tick ==
    /\ clock < MaxClock
    /\ clock' = clock + 1
    /\ UNCHANGED <<attempts, logins, updaters, vectors, client, embedVars, storeVars, reqVars, lastOp>>

(***************************************************************************)
(* Administration: src/backend/main.py.                                    *)
(***************************************************************************)
\* The dependency of the /admin routes: the caller passes with the admin
\* role and gets 403 otherwise.
check_admin_role(u) == "admin" \in users[u].roles

\* RoleUpdateRequest.roles: a list of strings, "root" being no role
RoleInputs == SeqsUpTo({"admin", "reader", "root"}, MaxRoles)

HasDuplicates(roles) == Cardinality(Range(roles)) < Len(roles)

RolesAfter_Merge(old, roles) == old \cup Range(roles)

\* user.roles = []; for code in req.roles: user.roles.append(role)
RolesAfter(old, roles) == Range(roles)

\* POST /admin/users/{user_id}/roles.  A role named twice is appended twice;
\* whether the flush then writes the user_roles row twice and fails on its
\* primary key is the ORM's matter: flushOk.
update_user_roles(u, target, roles, flushOk) ==
    /\ pc = "idle"
    /\ users[u].registered
    /\ HasDuplicates(roles) \/ flushOk
    /\ LET answer(status) == [Op("update_user_roles", u, None, target, status, <<>>)
                                 EXCEPT !.input.roles = roles]
       IN IF ~check_admin_role(u)
          THEN lastOp' = answer(403) /\ UNCHANGED users
          ELSE IF u = target
          THEN lastOp' = answer(400) /\ UNCHANGED users
          ELSE IF ~(Range(roles) \subseteq ROLES)
          THEN lastOp' = answer(400) /\ UNCHANGED users
          ELSE IF target \notin UserIds \/ ~users[target].registered
          THEN lastOp' = answer(404) /\ UNCHANGED users
          ELSE IF ~flushOk
          THEN lastOp' = answer(500) /\ UNCHANGED users
          ELSE /\ users' = [users EXCEPT ![target].roles = RolesAfter(@, roles)]
               /\ lastOp' = answer(200)
    /\ UNCHANGED <<articles, index, deletes, versions, userTeams, teams, writes>>
    /\ UNCHANGED <<sideVars, embedVars, reqVars>>

(***************************************************************************)
(* Article writes: src/backend/main.py.                                    *)
(***************************************************************************)
SetMax(S) == CHOOSE x \in S : \A y \in S : y <= x

\* datetime.utcnow() of the next insert: later than every stored created_at
Now ==
    1 + SetMax({0} \cup {articles[a].created_at : a \in DOMAIN articles}
                   \cup {versions[i].created_at : i \in 1..Len(versions)})

Write(a, title, content, tags) ==
    [article_id |-> a, title |-> title, content |-> content, tags |-> tags]

\* What follows the commit of the row in create_article and update_article:
\* embed_text, insert_vector, save_version, each of which may raise.
AfterCommit(op, u, a, row, tags, now, resp, indexOk) ==
    IF embed_text(ArticleWords(a), resp).raised \/ ~indexOk
    THEN /\ lastOp' = Op(op, u, a, None, 500, <<>>)
         /\ UNCHANGED <<index, versions, writes>>
    ELSE /\ index' = [index EXCEPT ![a] = PointOf(row.group_id)]
         /\ versions' = Append(versions, ArticleVersion(a, row, now))
         /\ writes' = Append(writes, Write(a, row.title, row.content, tags))
         /\ lastOp' = Op(op, u, a, None, 200, <<ArticleOutOf(a, row)>>)

\* POST /articles/ with ArticleCreate {title, content, tags, group_id}
create_article(u, title, content, tags, group_id, resp, indexOk) ==
    /\ pc = "idle"
    /\ users[u].registered
    /\ Cardinality(DOMAIN articles) < MaxArticles
    /\ Len(versions) < MaxVersions
    /\ resp \in (IF credentials THEN EmbedResponses ELSE {None})
    /\ IF ~RequireRoles(u, {"author"})
       THEN /\ lastOp' = Op("create_article", u, None, None, 403, <<>>)
            /\ UNCHANGED <<articles, index, versions, writes>>
       ELSE LET a == FreshArticle
                row == [NewArticle(title, content, tags, group_id, users[u].team_id)
                            EXCEPT !.created_at = Now]
            IN /\ articles' = articles @@ (a :> row)
               /\ AfterCommit("create_article", u, a, row, tags, Now + 1, resp, indexOk)
    /\ UNCHANGED <<deletes, users, userTeams, teams>>
    /\ UNCHANGED <<sideVars, embedVars, reqVars>>

\* PUT /articles/{article_id} with ArticleUpdate {title, content, tags, group_id}
update_article(u, a, title, content, tags, group_id, resp, indexOk) ==
    /\ pc = "idle"
    /\ users[u].registered
    /\ Len(versions) < MaxVersions
    /\ resp \in (IF credentials THEN EmbedResponses ELSE {None})
    /\ IF ~RequireRoles(u, {"author"})
       THEN /\ lastOp' = Op("update_article", u, a, None, 403, <<>>)
            /\ UNCHANGED <<articles, index, versions, writes>>
       ELSE IF ~VisibleArticle(a, users[u].team_id)
       THEN /\ lastOp' = Op("update_article", u, a, None, 404, <<>>)
            /\ UNCHANGED <<articles, index, versions, writes>>
       ELSE LET row == [articles[a] EXCEPT !.title = title, !.content = content,
                                           !.tags = JoinComma(tags),
                                           !.group_id = group_id]
            IN /\ articles' = [articles EXCEPT ![a] = row]
               /\ AfterCommit("update_article", u, a, row, tags, Now, resp, indexOk)
    /\ UNCHANGED <<deletes, users, userTeams, teams>>
    /\ UNCHANGED <<sideVars, embedVars, reqVars>>

\* POST /articles/{article_id}/assign-group with AssignGroupRequest {group_id}:
\* the row's group_id is set and committed; the index is not written.
assign_group(u, a, group_id) ==
    /\ pc = "idle"
    /\ users[u].registered
    /\ IF ~RequireRoles(u, {"author"})
       THEN /\ lastOp' = Op("assign_group", u, a, group_id, 403, <<>>)
            /\ UNCHANGED articles
       ELSE IF ~VisibleArticle(a, users[u].team_id)
       THEN /\ lastOp' = Op("assign_group", u, a, group_id, 404, <<>>)
            /\ UNCHANGED articles
       ELSE /\ articles' = [articles EXCEPT ![a].group_id = group_id]
            /\ lastOp' = Op("assign_group", u, a, group_id, 200, <<>>)
    /\ UNCHANGED <<index, deletes, versions, users, userTeams, teams, writes>>
    /\ UNCHANGED <<sideVars, embedVars, reqVars>>

(***************************************************************************)
(* update_article requests that overlap: src/backend/main.py.  The handler *)
(* is a plain def run on a pool thread; between its commit of the row and   *)
(* its upsert another request for the same article can run.                 *)
(***************************************************************************)
NoUpdate == [pc |-> "idle", article_id |-> None, title |-> None, words |-> <<>>,
             row |-> None, status |-> 0]

\* Bodies of the update requests: a title with a content, and the
\* whitespace-delimited words of f"{title}\n{content}".
UpdateTexts ==
    { [title |-> "U1", content |-> <<[ch |-> "p", n |-> 3]>>, words |-> <<"w1">>],
      [title |-> "U2", content |-> <<[ch |-> "q", n |-> 3]>>, words |-> <<"w1", "w2">>] }

WordsOfTitle(title) == (CHOOSE t \in UpdateTexts : t.title = title).words

\* Updates that have written their version, and updates in flight.
UpdatesStarted ==
    (Len(versions) - Len(InitialVersions))
        + Cardinality({w \in Workers : updaters[w].pc # "idle"})

\* update_article up to db.refresh: the row is looked up, written, committed.
UpdateCommit(w, u, a, text) ==
    /\ updaters[w].pc = "idle"
    /\ users[u].registered
    /\ UpdatesStarted < MaxUpdates
    /\ IF ~RequireRoles(u, {"author"})
       THEN /\ updaters' = [updaters EXCEPT ![w] = [NoUpdate EXCEPT !.status = 403]]
            /\ UNCHANGED articles
       ELSE IF ~VisibleArticle(a, users[u].team_id)
       THEN /\ updaters' = [updaters EXCEPT ![w] = [NoUpdate EXCEPT !.status = 404]]
            /\ UNCHANGED articles
       ELSE /\ articles' = [articles EXCEPT ![a].title = text.title,
                                            ![a].content = text.content,
                                            ![a].tags = JoinComma(<<>>),
                                            ![a].group_id = None]
            /\ updaters' = [updaters EXCEPT ![w] =
                   [pc |-> "embedding", article_id |-> a, title |-> text.title,
                    words |-> text.words, row |-> articles'[a], status |-> 0]]
    /\ UNCHANGED <<index, deletes, versions, users, userTeams, teams, writes>>
    /\ UNCHANGED <<attempts, clock, logins, vectors, client, embedVars, reqVars, lastOp>>

\* update_article from embed_text to its return: the request's own title and
\* content are embedded and upserted, the row as this request refreshed it is
\* saved as a version.
UpdateUpsert(w) ==
    /\ updaters[w].pc = "embedding"
    /\ LET a == updaters[w].article_id
       IN /\ vectors' = (a :> embed_text(updaters[w].words, None).vec) @@ vectors
          /\ index' = [index EXCEPT ![a] = PointOf(updaters[w].row.group_id)]
          /\ versions' = Append(versions, ArticleVersion(a, updaters[w].row, Now))
    /\ updaters' = [updaters EXCEPT ![w].pc = "idle", ![w].status = 200]
    /\ UNCHANGED <<articles, deletes, users, userTeams, teams, writes>>
    /\ UNCHANGED <<attempts, clock, logins, client, embedVars, reqVars, lastOp>>

(***************************************************************************)
(* The frontend's api_request: src/frontend/streamlit_app.py, and the      *)
(* refresh handler it calls: src/backend/auth.py                           *)
(***************************************************************************)
\* st.session_state of a signed-out browser session, with no call running.
\* targets and refreshes count the requests the running call has sent,
\* status and refreshStatus are the last responses (0: none, -1: the request
\* raised instead of answering).
NoClient ==
    [pc |-> "idle", retry |-> TRUE, access_token |-> None, refresh_token |-> None,
     user |-> None, targets |-> 0, refreshes |-> 0, status |-> 0, refreshStatus |-> 0]

\* Status codes of the target request; RequestRaised stands for a
\* requests exception (timeout, connection error).
RequestRaised == 0 - 1
TargetStatuses == {200, 204, 401, 403, 404, 500, RequestRaised}

\* The keys the refused branch pops, without "user".
PoppedKeys_TokensOnly == {"access_token", "refresh_token"}

\* for k in ["access_token", "refresh_token", "user"]: st.session_state.pop(k, None)
PoppedKeys == {"access_token", "refresh_token", "user"}

Pop(c, keys) ==
    [c EXCEPT !.access_token = IF "access_token" \in keys THEN None ELSE @,
              !.refresh_token = IF "refresh_token" \in keys THEN None ELSE @,
              !.user = IF "user" \in keys THEN None ELSE @]

\* POST /auth/refresh: 401 when the token does not decode or its user is
\* gone, else 200 with a new pair of tokens.
refresh(decodes, userFound) ==
    IF ~decodes \/ ~userFound
    THEN [status_code |-> 401, access_token |-> None, refresh_token |-> None]
    ELSE [status_code |-> 200, access_token |-> "access2", refresh_token |-> "refresh2"]

\* What the refresh request of api_request may get: the handler's answers, a
\* server error, or an exception of requests.
RefreshOutcomes ==
    {refresh(d, f) : d, f \in BOOLEAN}
        \cup {[status_code |-> st, access_token |-> None, refresh_token |-> None] :
                 st \in {500, RequestRaised}}

\* The sign-in form: the tokens of /auth/login are stored, then the user from
\* /auth/me when that request succeeds.
SignIn(withUser) ==
    /\ client.pc = "idle"
    /\ client' = [client EXCEPT !.access_token = "access1", !.refresh_token = "refresh1",
                                !.user = IF withUser THEN "u1" ELSE @]
    /\ UNCHANGED <<attempts, clock, logins, updaters, vectors, embedVars, storeVars,
                   reqVars, lastOp>>

\* The sign-out button.
SignOut ==
    /\ client.pc = "idle"
    /\ client' = Pop(client, {"access_token", "refresh_token", "user"})
    /\ UNCHANGED <<attempts, clock, logins, updaters, vectors, embedVars, storeVars,
                   reqVars, lastOp>>

\* api_request(method, path, payload) is called, retry left on its default.
ApiCall ==
    /\ client.pc = "idle"
    /\ client' = [client EXCEPT !.pc = "sending", !.retry = TRUE, !.targets = 0,
                                !.refreshes = 0, !.status = 0, !.refreshStatus = 0]
    /\ UNCHANGED <<attempts, clock, logins, updaters, vectors, embedVars, storeVars,
                   reqVars, lastOp>>

\* r = requests.request(...) and the branches on r.status_code.
SendTarget(status_code) ==
    /\ client.pc = "sending"
    /\ client' =
         [client EXCEPT
            !.targets = @ + 1,
            !.status = status_code,
            !.pc = IF status_code = RequestRaised THEN "raised"
                   ELSE IF status_code = 401 /\ client.retry /\ client.refresh_token # None
                   THEN "refreshing"
                   ELSE IF status_code >= 400 THEN "raised"
                   ELSE "returned"]
    /\ UNCHANGED <<attempts, clock, logins, updaters, vectors, embedVars, storeVars,
                   reqVars, lastOp>>

\* refresh = requests.post(.../auth/refresh) and its two branches: the new
\* tokens are stored and api_request calls itself with retry=False, or the
\* session keys are popped and st.stop() ends the script run.
SendRefresh(out) ==
    /\ client.pc = "refreshing"
    /\ client' =
         IF out.status_code = RequestRaised
         THEN [client EXCEPT !.refreshes = @ + 1, !.refreshStatus = out.status_code,
                             !.pc = "raised"]
         ELSE IF out.status_code < 300
         THEN [client EXCEPT !.refreshes = @ + 1, !.refreshStatus = out.status_code,
                             !.access_token = out.access_token,
                             !.refresh_token = out.refresh_token,
                             !.retry = FALSE, !.pc = "sending"]
         ELSE [Pop(client, PoppedKeys) EXCEPT !.refreshes = @ + 1,
                                              !.refreshStatus = out.status_code,
                                              !.pc = "stopped"]
    /\ UNCHANGED <<attempts, clock, logins, updaters, vectors, embedVars, storeVars,
                   reqVars, lastOp>>

\* The call is over: it returned, raised, or stopped the script run.
ApiDone ==
    /\ client.pc \in {"returned", "raised", "stopped"}
    /\ client' = [client EXCEPT !.pc = "idle"]
    /\ UNCHANGED <<attempts, clock, logins, updaters, vectors, embedVars, storeVars,
                   reqVars, lastOp>>

(***************************************************************************)
(* The handlers, one action per stage: a stage is one call of an external  *)
(* service with the handler's own code up to the next such call.           *)
(***************************************************************************)
NoRerankArgs == [called |-> FALSE, prompt_template |-> None, model |-> None]

NoExchange == [stage |-> None, input |-> <<>>, response |-> NoLLMResponse, output |-> <<>>]

ResetRequest ==
    /\ req' = NoRequest
    /\ lastLLM' = NoExchange
    /\ rawHits' = <<>>
    /\ accessHits' = <<>>
    /\ hits' = <<>>
    /\ llmCalls' = <<>>
    /\ response' = NoResponse
    /\ errorStage' = None
    /\ rerankArgs' = NoRerankArgs
    /\ embedExc' = None

\* The request ends with an unhandled exception at stage: a 500.
Fail(stage) ==
    /\ pc' = "error"
    /\ errorStage' = stage
    /\ response' = ErrorResponse(500)

\* search_articles / search_answer are entered with a request of the caller.
StartSearch(r) ==
    /\ pc = "idle"
    /\ r \in SearchRequests \cup AnswerRequests
    /\ pc' = "embedding"
    /\ req' = r
    /\ lastOp' = NoOp
    /\ UNCHANGED <<rawHits, accessHits, hits, llmCalls, lastLLM, response, errorStage,
                   rerankArgs, embedExc>>
    /\ UNCHANGED <<sideVars, embedVars, storeVars>>

\* related_articles: the article is looked up in the caller's team first.
StartRelated(r) ==
    /\ pc = "idle"
    /\ r \in RelatedRequests
    /\ req' = r
    /\ IF articles[r.article_id].is_deleted \/ articles[r.article_id].team_id # r.team_id
       THEN /\ pc' = "done"
            /\ response' = ErrorResponse(404)
       ELSE /\ pc' = "embedding"
            /\ UNCHANGED response
    /\ lastOp' = NoOp
    /\ UNCHANGED <<rawHits, accessHits, hits, llmCalls, lastLLM, errorStage, rerankArgs,
                   embedExc>>
    /\ UNCHANGED <<sideVars, embedVars, storeVars>>

\* embed_text(...) of the three handlers; related_articles answers [] on
\* RuntimeError, every other exception leaves the handler.
DoEmbed(resp) ==
    /\ pc = "embedding"
    /\ resp \in (IF credentials THEN EmbedResponses ELSE {None})
    /\ LET out == embed_text(EmbedInput(req), resp)
       IN IF ~out.raised
          THEN /\ pc' = "retrieving"
               /\ UNCHANGED <<response, errorStage>>
          ELSE IF req.endpoint = "related" /\ out.exc = "RuntimeError"
          THEN /\ pc' = "done"
               /\ response' = HitsResponse(<<>>)
               /\ UNCHANGED errorStage
          ELSE Fail("embedding")
    /\ embedExc' = embed_text(EmbedInput(req), resp).exc
    /\ UNCHANGED <<req, rawHits, accessHits, hits, llmCalls, lastLLM, rerankArgs>>
    /\ UNCHANGED <<sideVars, embedVars, storeVars, lastOp>>

\* client.search raises: the vector index cannot be reached.
IndexUnavailable ==
    /\ pc = "retrieving"
    /\ Fail("retrieving")
    /\ UNCHANGED <<req, rawHits, accessHits, hits, llmCalls, lastLLM, rerankArgs, embedExc>>
    /\ UNCHANGED <<sideVars, embedVars, storeVars, lastOp>>

\* _search_with_optional_group(...) and the handler's own filters after it:
\* the tag filter of search_articles and search_answer; the exclusion of the
\* article itself and the cut to limit of related_articles, which then returns.
DoRetrieve(raw, found) ==
    /\ pc = "retrieving"
    /\ raw \in client_search(LimitOf(req), GroupOf(req))
    /\ found \in search_vector(raw, req.team_id)
    /\ rawHits' = raw
    /\ accessHits' = found
    /\ IF req.endpoint = "related"
       THEN LET NotSelf(h) == h.id # req.article_id
                others == SelectSeq(found, NotSelf)
                cut == SubSeq(others, 1, Min(req.limit, Len(others)))
            IN /\ hits' = cut
               /\ pc' = "done"
               /\ response' = HitsResponse(cut)
       ELSE /\ hits' = TagFilter(found, req.tags)
            /\ pc' = "reranking"
            /\ UNCHANGED response
    /\ UNCHANGED <<req, llmCalls, lastLLM, errorStage, rerankArgs, embedExc>>
    /\ UNCHANGED <<sideVars, embedVars, storeVars, lastOp>>

RerankCall(hs) ==
    [stage |-> "rerank", ids |-> [i \in 1..Len(hs) |-> hs[i].id],
     prompt_template |-> resolve_prompt(req.group_id), model |-> team_model(req.team_id)]

\* rerank_with_llm(...) then hits.sort(...); search_articles returns the list.
DoRerank(r) ==
    /\ pc = "reranking"
    /\ rerankArgs' = [called |-> TRUE, prompt_template |-> resolve_prompt(req.group_id),
                      model |-> team_model(req.team_id)]
    /\ r \in (IF RerankCallsLLM(hits) THEN RerankResponses(hits) ELSE {NoLLMResponse})
    /\ llmCalls' = IF RerankCallsLLM(hits) THEN Append(llmCalls, RerankCall(hits))
                   ELSE llmCalls
    /\ lastLLM' = IF RerankCallsLLM(hits)
                  THEN [stage |-> "rerank", input |-> hits, response |-> r,
                        output |-> rerank_with_llm(hits, r)]
                  ELSE lastLLM
    /\ LET sorted == SortByScoreDesc(rerank_with_llm(hits, r))
       IN /\ hits' = sorted
          /\ IF req.endpoint = "search"
             THEN /\ pc' = "done"
                  /\ response' = HitsResponse(sorted)
             ELSE /\ pc' = "synthesizing"
                  /\ UNCHANGED response
    /\ UNCHANGED <<req, rawHits, accessHits, errorStage, embedExc>>
    /\ UNCHANGED <<sideVars, embedVars, storeVars, lastOp>>

SynthCall(hs) ==
    [stage |-> "synthesis", ids |-> [i \in 1..Len(hs) |-> hs[i].id],
     prompt_template |-> ANSWER_BASE_PROMPT, model |-> team_model(req.team_id)]

\* search_answer from the snippets to the return.
DoSynthesize(r) ==
    /\ pc = "synthesizing"
    /\ r \in (IF SynthCallsLLM(hits) THEN SynthResponses ELSE {NoLLMResponse})
    /\ llmCalls' = IF SynthCallsLLM(hits) THEN Append(llmCalls, SynthCall(hits))
                   ELSE llmCalls
    /\ lastLLM' = IF SynthCallsLLM(hits)
                  THEN [stage |-> "synthesis", input |-> hits, response |-> r,
                        output |-> <<>>]
                  ELSE lastLLM
    /\ LET out == ComposeAnswer(hits, r)
       IN IF out.raised
          THEN Fail("synthesizing")
          ELSE /\ pc' = "done"
               /\ response' = [status |-> 200, hits |-> <<>>, answer |-> out.answer,
                               prompt_used |-> AnswerPrompt(req.q, hits)]
               /\ UNCHANGED errorStage
    /\ UNCHANGED <<req, rawHits, accessHits, hits, rerankArgs, embedExc>>
    /\ UNCHANGED <<sideVars, embedVars, storeVars, lastOp>>

\* The response is sent; the worker takes the next request.
Finish ==
    /\ pc \in {"done", "error"}
    /\ pc' = "idle"
    /\ ResetRequest
    /\ UNCHANGED <<sideVars, embedVars, storeVars, lastOp>>

\* delete_article by a caller of team_id: the row is soft-deleted and committed,
\* then delete_vector removes the point, unless the index call raises.
delete_article(a, team_id, vectorDeleted) ==
    /\ pc = "idle"
    /\ deletes < MaxDeletes
    /\ ~articles[a].is_deleted
    /\ articles[a].team_id = team_id
    /\ articles' = [articles EXCEPT ![a].is_deleted = TRUE]
    /\ index' = IF vectorDeleted THEN [index EXCEPT ![a] = NoPoint] ELSE index
    /\ deletes' = deletes + 1
    /\ lastOp' = [NoOp EXCEPT !.op = "delete_article", !.team_id = team_id,
                             !.article_id = a, !.status = 200]
    /\ UNCHANGED <<versions, users, userTeams, teams, writes>>
    /\ UNCHANGED <<sideVars, embedVars, reqVars>>

(***************************************************************************)
(* Specifications.                                                         *)
(***************************************************************************)
InitStore ==
    /\ articles = InitialArticles
    /\ index = [a \in ArticleIds |-> PointOf(InitialArticles[a].group_id)]
    /\ deletes = 0
    /\ versions = InitialVersions
    /\ users = InitialUsers
    /\ userTeams = InitialUserTeams
    /\ teams = InitialTeams
    /\ writes = <<>>

InitSide ==
    /\ attempts = [e \in Emails |-> <<>>]
    /\ clock = 0
    /\ logins = [w \in Workers |-> NoLogin]
    /\ updaters = [w \in Workers |-> NoUpdate]
    /\ vectors = <<>>
    /\ client = NoClient

InitRequest ==
    /\ InitSide
    /\ pc = "idle"
    /\ req = NoRequest
    /\ rawHits = <<>>
    /\ accessHits = <<>>
    /\ hits = <<>>
    /\ llmCalls = <<>>
    /\ lastLLM = NoExchange
    /\ response = NoResponse
    /\ errorStage = None
    /\ rerankArgs = NoRerankArgs
    /\ embedExc = None
    /\ lastOp = NoOp

\* Values of the tags parameter of GET /articles/list: absent, "hr", "h",
\* "HR", "hr, it"
ListTagParams ==
    { <<>>, <<"h", "r">>, <<"h">>, <<"H", "R">>, <<"h", "r", ",", " ", "i", "t">> }

\* The backend process after start-up, serving search requests.
Init ==
    /\ credentials \in BOOLEAN
    /\ jsonErrIsRequestException = TRUE
    /\ hashOf = [w \in Words |-> 0]
    /\ prevCall = NoCall
    /\ lastCall = NoCall
    /\ InitStore
    /\ InitRequest

Next ==
    \/ \E r \in SearchRequests \cup AnswerRequests : StartSearch(r)
    \/ \E r \in RelatedRequests : StartRelated(r)
    \/ \E resp \in EmbedResponses \cup {None} : DoEmbed(resp)
    \/ IndexUnavailable
    \/ /\ pc = "retrieving"
       /\ \E raw \in client_search(LimitOf(req), GroupOf(req)) :
             \E found \in search_vector(raw, req.team_id) : DoRetrieve(raw, found)
    \/ \E r \in RerankResponses(hits) \cup {NoLLMResponse} : DoRerank(r)
    \/ \E r \in SynthResponses \cup {NoLLMResponse} : DoSynthesize(r)
    \/ Finish
    \/ \E a \in ArticleIds, t \in Teams, ok \in BOOLEAN : delete_article(a, t, ok)
    \/ \E u \in UserIds, a \in ArticleIds : get_article(u, a)
    \/ /\ pc = "idle"
       /\ \E u \in UserIds : \E order \in Perms(TeamArticles(users[u].team_id)) :
             list_articles(u, order)
    \/ /\ pc = "idle"
       /\ \E u \in UserIds, a \in ArticleIds :
             \E order \in OrderByCreatedAtDesc(VersionsOf(a)) :
                article_history(u, a, order)
    \/ /\ pc = "idle"
       /\ \E u \in UserIds, param \in ListTagParams :
             \E order \in Perms(BriefMatches(users[u].team_id, param)) :
                \E offset \in {0, 1}, limit \in {1, ListLimit} :
                   list_articles_brief(u, param, offset, limit, order)

Spec == Init /\ [][Next]_vars

\* An empty database: nobody is registered.
InitEmptyStore ==
    /\ articles = <<>>
    /\ index = [a \in ArticleIds |-> NoPoint]
    /\ deletes = 0
    /\ versions = <<>>
    /\ users = [u \in UserIds |-> NoUser]
    /\ userTeams = {}
    /\ teams = <<>>
    /\ writes = <<>>

InitProcess ==
    /\ credentials = FALSE
    /\ jsonErrIsRequestException = TRUE
    /\ hashOf = [w \in Words |-> 0]
    /\ prevCall = NoCall
    /\ lastCall = NoCall
    /\ InitRequest

\* Users register, create teams, invite each other, switch teams, write and
\* read articles; the process may restart in between.
InitTeams == InitProcess /\ InitEmptyStore

NextTeams ==
    \/ \E u \in UserIds : register(u)
    \/ ensure_user_team_memberships
    \/ \E u \in UserIds, name \in TeamNames : create_team(u, name)
    \/ \E u \in UserIds, t \in DOMAIN teams : \E target \in UserIds \ {u} :
          invite_user(u, t, target)
    \/ \E u \in UserIds, t \in DOMAIN teams : switch_team(u, t)
    \/ \E u \in UserIds :
          create_article(u, "T1", <<[ch |-> "x", n |-> 3]>>, <<>>, None, None, TRUE)
    \/ \E a \in DOMAIN articles, t \in DOMAIN teams : delete_article(a, t, TRUE)
    \/ \E u \in UserIds, a \in DOMAIN articles \cup {MissingId} : get_article(u, a)

SpecTeams == InitTeams /\ [][NextTeams]_vars

\* Tag lists a client may send (List[str]): none, one tag, one tag that holds
\* a comma.
TagWithComma == <<"a", ",", "b">>
TagInputs == {<<>>, <<TagHR>>, <<TagWithComma>>}

\* Two registered authors, no article yet; articles are written, deleted and
\* their history is read.
InitArticles ==
    /\ InitProcess
    /\ articles = <<>>
    /\ index = [a \in ArticleIds |-> NoPoint]
    /\ deletes = 0
    /\ versions = <<>>
    /\ users = InitialUsers
    /\ userTeams = InitialUserTeams
    /\ teams = InitialTeams
    /\ writes = <<>>

NextArticles ==
    \/ \E u \in UserIds, tags \in TagInputs, ok \in BOOLEAN :
          create_article(u, "T1", <<[ch |-> "x", n |-> 3]>>, tags, None, None, ok)
    \/ \E u \in UserIds, a \in DOMAIN articles \cup {MissingId}, tags \in TagInputs,
          ok \in BOOLEAN :
          update_article(u, a, "T2", <<[ch |-> "y", n |-> 3]>>, tags, None, None, ok)
    \/ \E a \in DOMAIN articles, t \in Teams : delete_article(a, t, TRUE)
    \/ \E u \in UserIds, a \in DOMAIN articles \cup {MissingId} :
          \E order \in OrderByCreatedAtDesc(VersionsOf(a)) : article_history(u, a, order)

SpecArticles == InitArticles /\ [][NextArticles]_vars

\* One admin and one author; roles are granted and withdrawn.
InitAdmin ==
    /\ InitProcess
    /\ articles = <<>>
    /\ index = [a \in ArticleIds |-> NoPoint]
    /\ deletes = 0
    /\ versions = <<>>
    /\ users = [u \in UserIds |->
                  IF u = "u1" THEN User("tA", {"admin"})
                  ELSE User("tB", {"author", "reader"})]
    /\ userTeams = InitialUserTeams
    /\ teams = InitialTeams
    /\ writes = <<>>

NextAdmin ==
    \E u \in UserIds, target \in UserIds \cup {MissingId}, roles \in RoleInputs,
       flushOk \in BOOLEAN : update_user_roles(u, target, roles, flushOk)

SpecAdmin == InitAdmin /\ [][NextAdmin]_vars

\* Searches with a group filter, while authors move articles between groups.
GroupSearchRequests ==
    {r \in SearchRequests : r.group_id # None /\ r.tags = <<>> /\ r.top_k = 1}

InitGroups == InitProcess /\ InitStore

NextGroups ==
    \/ \E u \in UserIds, a \in ArticleIds, g \in GroupFilters : assign_group(u, a, g)
    \/ \E r \in GroupSearchRequests : StartSearch(r)
    \/ \E resp \in EmbedResponses \cup {None} : DoEmbed(resp)
    \/ /\ pc = "retrieving"
       /\ \E raw \in client_search(LimitOf(req), GroupOf(req)) :
             \E found \in search_vector(raw, req.team_id) : DoRetrieve(raw, found)
    \/ \E r \in RerankResponses(hits) \cup {NoLLMResponse} : DoRerank(r)
    \/ Finish

SpecGroups == InitGroups /\ [][NextGroups]_vars

\* Users register, create teams, invite and remove each other and switch
\* teams; the process may restart in between.
NextMembers ==
    \/ \E u \in UserIds : register(u)
    \/ ensure_user_team_memberships
    \/ \E u \in UserIds, name \in TeamNames : create_team(u, name)
    \/ \E u \in UserIds, t \in DOMAIN teams, target \in UserIds : invite_user(u, t, target)
    \/ \E u \in UserIds, t \in DOMAIN teams, target \in UserIds :
          \E new_assoc \in userTeams \cup {<<None, None>>} :
             remove_user(u, t, target, new_assoc)
    \/ \E u \in UserIds, t \in DOMAIN teams \cup {MissingId} : switch_team(u, t)

SpecMembers == InitTeams /\ [][NextMembers]_vars

\* Login requests of two worker threads, while time passes.
InitLogin == InitProcess /\ InitStore

NextLogin ==
    \/ \E w \in Workers, email \in Emails, good \in BOOLEAN : LoginCheck(w, email, good)
    \/ \E w \in Workers : LoginVerify(w)
    \/ Tick

SpecLogin == InitLogin /\ [][NextLogin]_vars

\* Two worker threads serving update_article requests of the authors.
InitConcurrent == InitProcess /\ InitStore

NextConcurrent ==
    \/ \E w \in Workers, u \in UserIds, a \in {"a1", "a2"}, text \in UpdateTexts :
          UpdateCommit(w, u, a, text)
    \/ \E w \in Workers : UpdateUpsert(w)

SpecConcurrent == InitConcurrent /\ [][NextConcurrent]_vars

\* One browser session using the frontend.  Both requests of api_request
\* carry timeout=60, so a request that was sent answers or raises.
InitClient == InitProcess /\ InitStore

ClientRequest ==
    \/ \E status_code \in TargetStatuses : SendTarget(status_code)
    \/ \E out \in RefreshOutcomes : SendRefresh(out)

NextClient ==
    \/ \E withUser \in BOOLEAN : SignIn(withUser)
    \/ SignOut
    \/ ApiCall
    \/ ClientRequest
    \/ ApiDone

SpecClient == InitClient /\ [][NextClient]_vars /\ WF_vars(ClientRequest)

\* The process calling embed_text, for every hash seed.
InitEmbed ==
    /\ credentials \in BOOLEAN
    /\ jsonErrIsRequestException \in BOOLEAN
    /\ hashOf \in HashFunctions
    /\ prevCall = NoCall
    /\ lastCall = NoCall
    /\ InitStore
    /\ InitRequest

NextEmbed == \E text \in Texts, resp \in EmbedResponses \cup {None} : CallEmbed(text, resp)

SpecEmbed == InitEmbed /\ [][NextEmbed]_vars

(***************************************************************************)
(* Properties of the search handlers, checked under Spec.                  *)
(***************************************************************************)
IsQuery == req.endpoint \in {"search", "answer"}

\* Ids of the articles a response names: its hits and its reference links.
ReturnedIds ==
    HitIds(response.hits)
        \cup {response.answer.references[i].id : i \in 1..Len(response.answer.references)}

Descending(hs) == \A i \in 1..(Len(hs) - 1) : hs[i].score >= hs[i + 1].score

\* C1: tenant isolation.  On every query path, whatever the index answers,
\* every hit handed on or returned is of an article of the caller's active team.
C1_TenantIsolation ==
    \A id \in HitIds(accessHits) \cup HitIds(hits) \cup ReturnedIds :
        articles[id].team_id = req.team_id

\* The index ranked an article of another team first and the request still
\* returned hits.
C1_Witness ==
    /\ pc = "done"
    /\ response.status = 200
    /\ response.hits # <<>>
    /\ rawHits # <<>>
    /\ articles[rawHits[1].id].team_id # req.team_id

\* C2: the list search_articles returns, and the list search_answer works on
\* after reranking, is in descending score order.
C2_ScoreDescending ==
    /\ (pc = "done" /\ req.endpoint = "search") => Descending(response.hits)
    /\ (pc \in {"synthesizing", "done"} /\ req.endpoint = "answer") => Descending(hits)

\* The reranker put a lower-scored hit first and the returned list is sorted.
C2_Witness ==
    /\ pc = "done"
    /\ req.endpoint = "search"
    /\ lastLLM.stage = "rerank"
    /\ Len(lastLLM.output) = 2
    /\ lastLLM.output[1].score < lastLLM.output[2].score
    /\ Len(response.hits) = 2

\* C3: after the tag filter a hit that passed the access filter is kept iff
\* its tags include every requested tag; with no tag list nothing is dropped.
C3_TagFilterIsAnd ==
    (pc = "reranking" /\ IsQuery) =>
        /\ \A i \in 1..Len(accessHits) :
              (accessHits[i] \in Range(hits)) <=>
                  (req.tags = <<>> \/ Range(req.tags) \subseteq Range(accessHits[i].tags))
        /\ Range(hits) \subseteq Range(accessHits)
        /\ req.tags = <<>> => hits = accessHits

\* A tag list that one accessible hit satisfies and another, sharing one of
\* the tags, does not.
C3_Witness ==
    /\ pc = "reranking"
    /\ req.tags # <<>>
    /\ Len(accessHits) = 2
    /\ Len(hits) = 1
    /\ \E i \in 1..2 : /\ accessHits[i] \notin Range(hits)
                       /\ Range(req.tags) \cap Range(accessHits[i].tags) # {}

\* The completion exchange gave the reranker no usable order.
RerankFailed(x) ==
    \/ x.response.kind \in LLMFailureKinds
    \/ x.response.kind = "no_alternatives"
    \/ x.response.text.type # "str"
    \/ Range(x.response.text.tokens) \cap HitIds(x.input) = {}

\* C4: reranker fail-open.  On a transport error, a non-200 status, a body
\* that cannot be read or an empty id order, rerank_with_llm returns its input.
C4_RerankFailOpen ==
    (lastLLM.stage = "rerank" /\ RerankFailed(lastLLM)) => lastLLM.output = lastLLM.input

C4_Witness ==
    /\ lastLLM.stage = "rerank"
    /\ lastLLM.response.kind = "status_non200"
    /\ Len(lastLLM.input) = 2
    /\ lastLLM.output = lastLLM.input

\* C5: when search_answer returns with hits, the answer carries a link
\* [title](wiki://id) for every hit, whoever wrote the body.
C5_ReferencesPresent ==
    (pc = "done" /\ req.endpoint = "answer" /\ hits # <<>>) =>
        \A i \in 1..Len(hits) : Link(hits[i]) \in Range(response.answer.references)

\* An answer with the extractive fallback body and two hits.
C5_Witness ==
    /\ pc = "done"
    /\ req.endpoint = "answer"
    /\ Len(hits) = 2
    /\ response.answer.body.kind = "extractive"
    /\ credentials

\* C6: search_answer without surviving hits ends with status 200, the fixed
\* nothing-found message, no references, and no completion request sent.
C6_EmptyResultIsSuccess ==
    /\ (pc = "done" /\ req.endpoint = "answer" /\ hits = <<>>) =>
          /\ response.status = 200
          /\ response.answer.body.kind = "nothing_found"
          /\ response.answer.references = <<>>
          /\ llmCalls = <<>>
    /\ (pc = "error" /\ errorStage \notin {"embedding", "retrieving"}) => hits # <<>>

\* Credentials are configured, the index returned neighbours, and none survived.
C6_Witness ==
    /\ pc = "done"
    /\ req.endpoint = "answer"
    /\ credentials
    /\ rawHits # <<>>
    /\ hits = <<>>
    /\ response.status = 200

C10_ErrorOnlyBeforeFilter ==
    (pc = "error" /\ IsQuery) => errorStage \in {"embedding", "retrieving"}

\* C11 as claimed: the hits the reranker's answer does not mention are in the
\* list after the score sort, which holds the same articles as the list that
\* entered the reranker.
C11_UnmentionedRecovered ==
    /\ (pc = "done" /\ req.endpoint = "search" /\ lastLLM.stage = "rerank") =>
          HitIds(response.hits) = HitIds(lastLLM.input)
    /\ (pc = "synthesizing" /\ lastLLM.stage = "rerank") =>
          HitIds(hits) = HitIds(lastLLM.input)

\* The instruction the specification resolves for an answer request.
ResolvedInstruction(r) ==
    IF r.group_id \in GroupIds /\ GroupPromptTemplate[r.group_id] # None
    THEN GroupPromptTemplate[r.group_id]
    ELSE TeamBasePrompt[r.team_id]

\* C12 as claimed: prompt_used of search_answer begins with the group's
\* prompt_template when the request names a group that has one, and with the
\* caller's team base_prompt otherwise.
C12_AnswerInstruction ==
    (pc = "done" /\ req.endpoint = "answer" /\ response.status = 200) =>
        response.prompt_used.instruction = ResolvedInstruction(req)

\* C13: for a request naming a group that has a prompt_template, the reranker
\* is called with that template and with the team's llm_model, "yandexgpt-lite"
\* when the team has none; the completion request it sends carries both.
C13_GroupPromptReachesReranker ==
    (rerankArgs.called /\ IsQuery) =>
        LET model == IF TeamLlmModel[req.team_id] # None
                     THEN TeamLlmModel[req.team_id] ELSE "yandexgpt-lite"
            grouped == req.group_id \in GroupIds /\ GroupPromptTemplate[req.group_id] # None
        IN /\ grouped => rerankArgs.prompt_template = GroupPromptTemplate[req.group_id]
           /\ rerankArgs.model = model
           /\ \A i \in 1..Len(llmCalls) :
                 llmCalls[i].stage = "rerank" =>
                     /\ llmCalls[i].model = model
                     /\ grouped => llmCalls[i].prompt_template
                                       = GroupPromptTemplate[req.group_id]

\* A search naming group g1 by a caller whose team has no llm_model; the
\* reranker sent its completion request.
C13_Witness ==
    /\ pc = "done"
    /\ req.endpoint = "search"
    /\ req.group_id = "g1"
    /\ TeamLlmModel[req.team_id] = None
    /\ rerankArgs.called
    /\ llmCalls # <<>>

\* C16: an article whose soft delete is committed is in no hit list and no
\* response of a later request, also when its point is still in the index:
\* searches and lists omit it, get_article, article_history and
\* related_articles on it answer 404.
C16_DeletedNeverServed ==
    \A a \in ArticleIds :
        articles[a].is_deleted =>
            /\ a \notin HitIds(accessHits) \cup HitIds(hits) \cup ReturnedIds
            /\ lastOp.op \in {"get_article", "list_articles"} =>
                  \A i \in 1..Len(lastOp.rows) : lastOp.rows[i].id # a
            /\ (lastOp.op \in {"get_article", "article_history"} /\ lastOp.article_id = a) =>
                  /\ lastOp.status = 404
                  /\ lastOp.rows = <<>>
            /\ (pc = "done" /\ req.endpoint = "related" /\ req.article_id = a) =>
                  /\ response.status = 404
                  /\ response.hits = <<>>

\* A search answered with hits although the index ranked the point of a
\* deleted article of the caller's team among the neighbours.
C16_Witness ==
    /\ pc = "done"
    /\ response.status = 200
    /\ response.hits # <<>>
    /\ \E a \in RawIds(rawHits) :
          /\ articles[a].is_deleted
          /\ articles[a].team_id = req.team_id
          /\ index[a].present

\* C18: related_articles for article A with limit n returns at most n hits,
\* never A; it searches the points whose group_id is A's; when embed_text
\* raises RuntimeError it answers 200 with an empty list.
C18_RelatedArticles ==
    /\ (pc = "done" /\ req.endpoint = "related" /\ response.status = 200) =>
          /\ req.article_id \notin HitIds(response.hits)
          /\ Len(response.hits) <= req.limit
          /\ articles[req.article_id].group_id # None =>
                \A i \in 1..Len(rawHits) :
                    index[rawHits[i].id].group_id = articles[req.article_id].group_id
    /\ (req.endpoint = "related" /\ embedExc = "RuntimeError") =>
          /\ pc = "done"
          /\ response = HitsResponse(<<>>)

\* With limit 1 the index returned two points, A's and that of another
\* article of the team; the response holds the other one.
C18_Witness ==
    /\ pc = "done"
    /\ req.endpoint = "related"
    /\ req.limit = 1
    /\ Len(rawHits) = 2
    /\ req.article_id \in HitIds(accessHits)
    /\ Len(response.hits) = 1

\* Position of article id in the index's answer.
RawPos(raw, id) == CHOOSE i \in 1..Len(raw) : raw[i].id = id

\* C21: the hits search_vector returns list the surviving articles in the
\* order in which the index returned them, each with the score the index
\* gave for its id.
C21_AccessFilterKeepsOrder ==
    /\ \A i \in 1..Len(accessHits) :
          /\ accessHits[i].id \in RawIds(rawHits)
          /\ accessHits[i].score = rawHits[RawPos(rawHits, accessHits[i].id)].score
    /\ \A i, j \in 1..Len(accessHits) :
          i < j => RawPos(rawHits, accessHits[i].id) < RawPos(rawHits, accessHits[j].id)

\* C22: a search with a group_id filter returns only hits whose group_id is
\* the filter, however articles were moved between groups before.
C22_GroupFilter ==
    (pc = "done" /\ IsQuery /\ req.group_id # None /\ response.status = 200) =>
        \A i \in 1..Len(response.hits) : response.hits[i].group_id = req.group_id

\* The known ids among the words of a completion text, each at its first
\* occurrence only.
RECURSIVE FirstOccurrences(_, _)
FirstOccurrences(tokens, known) ==
    IF tokens = <<>> THEN <<>>
    ELSE LET rest == FirstOccurrences(SubSeq(tokens, 1, Len(tokens) - 1), known)
             last == tokens[Len(tokens)]
         IN IF last \in known /\ last \notin {rest[i] : i \in 1..Len(rest)}
            THEN Append(rest, last) ELSE rest

\* C23: on a successful completion rerank_with_llm returns the hits whose ids
\* are words of the text, each once, in the order of the first occurrence of
\* their ids; words that are no id of a hit add nothing.  (A text that names
\* no hit at all is the fail-open case and is not judged here.)
C23_RerankParsing ==
    (lastLLM.stage = "rerank" /\ lastLLM.response.kind = "ok"
        /\ lastLLM.response.text.type = "str") =>
        LET expected == FirstOccurrences(lastLLM.response.text.tokens,
                                         HitIds(lastLLM.input))
        IN expected # <<>> =>
              /\ Len(lastLLM.output) = Len(expected)
              /\ \A i \in 1..Len(expected) : lastLLM.output[i].id = expected[i]
              /\ \A i \in 1..Len(lastLLM.output) :
                    \E j \in 1..Len(lastLLM.input) : lastLLM.output[i] = lastLLM.input[j]

\* The synthesis request of the request in hand was not sent for want of
\* credentials, or it raised, was answered with another status than 200, or
\* gave an empty text.
SynthesisFellBack ==
    \/ ~credentials
    \/ /\ lastLLM.stage = "synthesis"
       /\ \/ lastLLM.response.kind \in
                {"transport_error", "status_non200", "body_unparseable",
                 "body_not_object", "alternative_malformed", "no_alternatives"}
          \/ /\ lastLLM.response.kind = "ok"
             /\ lastLLM.response.text.type \in {"str", "null"}
             /\ lastLLM.response.text.empty

\* C24: when search_answer has hits and its synthesis fell back, the request
\* is answered 200 with the extractive summary, one item per hit made of the
\* hit's title and its content cut to 200 characters, followed by the
\* references: a non-empty answer.
C24_SynthesisFallback ==
    (pc \in {"done", "error"} /\ req.endpoint = "answer" /\ hits # <<>>
        /\ SynthesisFellBack) =>
        /\ pc = "done"
        /\ response.status = 200
        /\ response.answer.body.kind = "extractive"
        /\ Len(response.answer.body.items) = Len(hits)
        /\ \A i \in 1..Len(hits) :
              /\ response.answer.body.items[i].title = hits[i].title
              /\ response.answer.body.items[i].content = Take(hits[i].content, SnippetLen)
              /\ StrLen(response.answer.body.items[i].content) <= SnippetLen
        /\ response.answer.references # <<>>

\* The completion endpoint answered the synthesis request with a status other
\* than 200 and the summary was built from a hit longer than a snippet.
C24_Witness ==
    /\ pc = "done"
    /\ req.endpoint = "answer"
    /\ credentials
    /\ lastLLM.stage = "synthesis"
    /\ lastLLM.response.kind = "status_non200"
    /\ response.answer.body.kind = "extractive"
    /\ \E i \in 1..Len(hits) : StrLen(hits[i].content) > SnippetLen

\* The tags a GET /articles/list request asks for: the pieces of its tags
\* parameter between commas, blanks around them dropped.
RequestedTags(param) == {TagList(param)[i] : i \in 1..Len(TagList(param))}

HasEveryTag(a, param) ==
    RequestedTags(param) \subseteq
        {TagsOfColumn(articles[a].tags)[k] : k \in 1..Len(TagsOfColumn(articles[a].tags))}

\* C20: GET /articles/list with a tags parameter returns no article that
\* lacks a requested tag, and a first page that is long enough returns
\* exactly the non-deleted articles of the caller's team whose tag list
\* holds every requested tag.
C20_ListTagFilter ==
    (lastOp.op = "list_articles_brief" /\ lastOp.status = 200
        /\ lastOp.input.tags # <<>>) =>
        LET returned == {lastOp.rows[i].id : i \in 1..Len(lastOp.rows)}
            expected == {a \in DOMAIN articles :
                            /\ ~articles[a].is_deleted
                            /\ articles[a].team_id = users[lastOp.caller].team_id
                            /\ HasEveryTag(a, lastOp.input.tags)}
        IN /\ \A a \in returned : HasEveryTag(a, lastOp.input.tags)
           /\ (lastOp.input.offset = 0 /\ lastOp.input.limit = ListLimit) =>
                 returned = expected

(***************************************************************************)
(* Properties of the team handlers, checked under SpecTeams.               *)
(***************************************************************************)
\* C14: whatever teams were created, switched to and joined before, a
\* get_article of article A by a reader U answers 200 with A if and only if A
\* exists, is not deleted and belongs to the team that is U's active team; in
\* every other case, membership in A's team included, it answers 404.
C14_ReadsFollowActiveTeam ==
    (lastOp.op = "get_article" /\ "reader" \in users[lastOp.caller].roles) =>
        LET a == lastOp.article_id
            u == lastOp.caller
            readable == /\ a \in DOMAIN articles
                        /\ ~articles[a].is_deleted
                        /\ articles[a].team_id = users[u].team_id
        IN /\ lastOp.status \in {200, 404}
           /\ (lastOp.status = 200) <=> readable
           /\ lastOp.status = 200 =>
                 /\ Len(lastOp.rows) = 1
                 /\ lastOp.rows[1].id = a
                 /\ lastOp.rows[1].title = articles[a].title

\* A member of the article's team whose active team is another one got 404
\* for an article that exists and is not deleted.
C14_Witness ==
    /\ lastOp.op = "get_article"
    /\ lastOp.status = 404
    /\ lastOp.article_id \in DOMAIN articles
    /\ ~articles[lastOp.article_id].is_deleted
    /\ <<lastOp.caller, articles[lastOp.article_id].team_id>> \in userTeams
    /\ users[lastOp.caller].team_id # articles[lastOp.article_id].team_id
    /\ <<lastOp.caller, users[lastOp.caller].team_id>> \in userTeams

\* The teams a user was placed in: the team made at its registration, the
\* teams it created and the teams it was invited to.
PlacedIn(u) ==
    {t \in DOMAIN teams : teams[t] = TeamNameOf(u)} \cup {t \in DOMAIN teams : <<u, t>> \in userTeams}

\* C15: switch_team to team T answers 200 and makes T the active team when the
\* caller was placed in T (at registration, by create_team or by an
\* invitation), and answers 403 with the active team unchanged otherwise.
C15_SwitchToEveryOwnTeam ==
    lastOp.op = "switch_team" =>
        IF lastOp.target \in PlacedIn(lastOp.caller)
        THEN lastOp.status = 200 /\ users[lastOp.caller].team_id = lastOp.target
        ELSE lastOp.status = 403 /\ users[lastOp.caller].team_id = lastOp.team_id

(***************************************************************************)
(* Properties of the article handlers, checked under SpecArticles.         *)
(***************************************************************************)
\* The requests that wrote article a and were answered 200, oldest first.
WritesOf(a) == SelectSeq(writes, LAMBDA w : w.article_id = a)

\* C17: article_history answers 404 exactly when the article does not exist,
\* is deleted or belongs to another team; otherwise it returns one version
\* per successful create or update of the article, newest first, each with
\* the title, content and tags that request wrote.
C17_HistoryHoldsWhatWasWritten ==
    lastOp.op = "article_history" =>
        LET a == lastOp.article_id
            w == WritesOf(a)
            n == Len(w)
            exists == /\ a \in DOMAIN articles
                      /\ ~articles[a].is_deleted
                      /\ articles[a].team_id = users[lastOp.caller].team_id
        IN /\ (lastOp.status = 404) <=> ~exists
           /\ lastOp.status = 200 =>
                 /\ Len(lastOp.rows) = n
                 /\ \A i \in 1..n :
                       /\ lastOp.rows[i].title = w[n + 1 - i].title
                       /\ lastOp.rows[i].content = w[n + 1 - i].content
                       /\ lastOp.rows[i].tags = w[n + 1 - i].tags

(***************************************************************************)
(* Properties of the administration handlers, checked under SpecAdmin.     *)
(***************************************************************************)
\* C19: an update_user_roles request is answered 403 when the caller is no
\* admin, 400 when an admin names itself, 400 when an admin names a role
\* outside {admin, author, reader}, 404 when the target does not exist, and
\* each of these leaves every user's roles as they were; a request answered
\* 200 leaves the target with exactly the requested roles and every other
\* user as it was.
C19_RoleUpdate ==
    [][lastOp'.op = "update_user_roles" =>
          LET o == lastOp'
              isAdmin == "admin" \in users[o.caller].roles
              requested == {o.input.roles[i] : i \in 1..Len(o.input.roles)}
              known == requested \subseteq {"admin", "author", "reader"}
              exists == o.target \in UserIds /\ users[o.target].registered
          IN /\ ~isAdmin => o.status = 403
             /\ (isAdmin /\ o.target = o.caller) => o.status = 400
             /\ (isAdmin /\ ~known) => o.status = 400
             /\ (isAdmin /\ o.target # o.caller /\ known /\ ~exists) => o.status = 404
             /\ o.status # 200 => users' = users
             /\ o.status = 200 =>
                   /\ isAdmin /\ o.target # o.caller /\ known /\ exists
                   /\ users'[o.target].roles = requested
                   /\ \A v \in UserIds \ {o.target} : users'[v] = users[v]
                   /\ users'[o.target].team_id = users[o.target].team_id]_vars

\* The second user, made admin by the first, has taken the admin role from
\* the first and left it the reader role alone.
C19_Witness ==
    /\ lastOp.op = "update_user_roles"
    /\ lastOp.status = 200
    /\ lastOp.caller = "u2"
    /\ lastOp.target = "u1"
    /\ lastOp.input.roles = <<"reader">>
    /\ users["u1"].roles = {"reader"}

\* C25: every article that is in the relational store and not deleted has
\* a point in the vector index and at least one version, also after a
\* create_article or update_article whose embedding or upsert step failed.
C25_WriteSideConsistency ==
    \A a \in DOMAIN articles :
        ~articles[a].is_deleted =>
            /\ index[a].present
            /\ \E i \in 1..Len(versions) : versions[i].article_id = a

(***************************************************************************)
(* Properties of team membership, checked under SpecMembers.               *)
(***************************************************************************)
\* C26: the active team of every user is unset or a team of which the user
\* has a membership record, after every register, create_team, invite_user,
\* remove_user and switch_team.
C26_ActiveTeamIsMembership ==
    \A u \in UserIds :
        users[u].registered =>
            users[u].team_id = None \/ <<u, users[u].team_id>> \in userTeams

(***************************************************************************)
(* Properties of login, checked under SpecLogin.                           *)
(***************************************************************************)
\* Failed attempts on record for email that are at most a minute old.
RecentFailures(email) ==
    Cardinality({i \in 1..Len(attempts[email]) : clock - attempts[email][i] <= Minute})

\* A login request of worker w enters the handler in this step.
LoginEnters(w) == logins[w].pc = "idle" /\ logins'[w] # logins[w]

\* C27: no email ever has more than 5 failed attempts on record; a login
\* that arrives while 5 failures of the last minute are on record is answered
\* 429 and adds no attempt; a login with the right password that arrives
\* with fewer is answered 200 and empties the record.
C27_LoginThrottling ==
    /\ [](\A e \in Emails : Len(attempts[e]) <= MaxAttempts)
    /\ [][\A w \in Workers :
             /\ (LoginEnters(w) /\ RecentFailures(logins'[w].email) >= MaxAttempts) =>
                   /\ logins'[w].status = 429
                   /\ logins'[w].pc = "idle"
                   /\ Len(attempts'[logins'[w].email]) <= Len(attempts[logins'[w].email])
             /\ (LoginEnters(w) /\ RecentFailures(logins'[w].email) < MaxAttempts
                    /\ Len(attempts[logins'[w].email]) <= MaxAttempts) =>
                   logins'[w].pc = "verifying"
             /\ (logins[w].pc = "verifying" /\ logins'[w].pc = "idle" /\ logins[w].good) =>
                   /\ logins'[w].status = 200
                   /\ attempts'[logins[w].email] = <<>>]_vars

\* The articles a request may show to the completion provider: those of the
\* caller's active team, not soft-deleted, that search_vector returned and
\* that carry every requested tag.
PassedFilters(id) ==
    /\ articles[id].team_id = req.team_id
    /\ ~articles[id].is_deleted
    /\ \E i \in 1..Len(accessHits) : accessHits[i].id = id
    /\ Range(req.tags) \subseteq Range(TagsOfColumn(articles[id].tags))

\* C29: every completion request of rerank_with_llm and of the synthesis
\* step of search_answer is built only from articles that passed the access
\* filter and the tag filter, and none is sent before the access filter of
\* the same request has run.
C29_NoCrossTenantContent ==
    /\ llmCalls # <<>> => pc \in {"reranking", "synthesizing", "done", "error"}
    /\ \A i \in 1..Len(llmCalls) :
          /\ llmCalls[i].stage \in {"rerank", "synthesis"}
          /\ \A k \in 1..Len(llmCalls[i].ids) : PassedFilters(llmCalls[i].ids[k])

\* search_answer sent a rerank and a synthesis request while the index had
\* answered with an article of another team or a soft-deleted one.
C29_Witness ==
    /\ \E i, j \in 1..Len(llmCalls) :
          llmCalls[i].stage = "rerank" /\ llmCalls[j].stage = "synthesis"
    /\ \E a \in RawIds(rawHits) :
          articles[a].is_deleted \/ articles[a].team_id # req.team_id

C30_RefreshTerminates ==
    /\ [](/\ client.targets <= 2
          /\ client.refreshes <= 1
          /\ client.targets = 2 => (client.refreshes = 1 /\ ~client.retry)
          /\ client.pc = "refreshing" =>
                /\ client.status = 401
                /\ client.retry
                /\ client.refresh_token # None
                /\ client.refreshes = 0
          /\ client.pc = "stopped" =>
                /\ client.refreshStatus >= 300
                /\ client.access_token = None
                /\ client.refresh_token = None
                /\ client.user = None)
    /\ [][client.pc = "refreshing" /\ client'.pc # "refreshing" =>
            \/ /\ client'.refreshStatus = RequestRaised
               /\ client'.pc = "raised"
            \/ /\ client'.refreshStatus >= 300
               /\ client'.pc = "stopped"
            \/ /\ client'.refreshStatus \in 0..299
               /\ client'.pc = "sending"
               /\ ~client'.retry
               /\ client'.targets = 1]_vars
    /\ (client.pc \in {"sending", "refreshing"}
            ~> client.pc \in {"returned", "raised", "stopped"})

\* A signed-in session was refused its refresh: the call stopped after one
\* target request and one refresh request, and the session keys are gone.
C30_Witness ==
    /\ client.pc = "stopped"
    /\ client.status = 401
    /\ client.targets = 1
    /\ client.refreshes = 1
    /\ client.refreshStatus = 401

C9_EmbedFailureTaxonomy ==
    (lastCall.made /\ credentials) =>
        /\ lastCall.resp \in {"http_401", "network_error"} =>
              (~lastCall.out.raised /\ lastCall.out.source = "local")
        /\ lastCall.resp \in {"http_other", "body_unparseable", "body_missing_field"} =>
              lastCall.out.raised
====
